---------------------------- MODULE Spec2Model ----------------------------
(***************************************************************************)
(* pyNOVATime: the timesheet data model of src/novatime.py.                *)
(*                                                                         *)
(* Raw vendor records (flat JSON objects) are turned into TimesheetEntry   *)
(* objects, collected by Timesheet.get_times into `entries` (keyed by      *)
(* punch date) and `hours` (week buckets); Timesheet.predict_clock_out     *)
(* and TimesheetEntry.to_dict read them back.                              *)
(*                                                                         *)
(* Representation                                                          *)
(*   None            [type |-> "None"]                                     *)
(*   str             [type |-> "str", fmt, ...]: a text in the named       *)
(*                   vendor format, kept as its calendar fields            *)
(*   arrow           [type |-> "arrow", ord, sec, tz]: proleptic Gregorian *)
(*                   ordinal of the day, second of the day, time zone      *)
(*   timedelta       an integer number of seconds                          *)
(*   vendor hours    an integer number of hundredths of an hour            *)
(*   vendor minutes  an integer number of minutes                          *)
(*   exception       [type |-> "raise", exc, arg]                          *)
(***************************************************************************)
EXTENDS Integers, Sequences, FiniteSets, TLC

VARIABLES
    now,            \* the reading of arrow.now() in this session
    pc,             \* position of Timesheet.get_times: new/parsing/done/raised,
                    \* and writing while NOVATime.write_entries awaits its POST
    raw_timesheet,  \* the records of the raw list get_times has taken so far
    entries,        \* Timesheet.entries: punch date -> list of TimesheetEntry
    hours,          \* Timesheet.hours: HourTotals
    ret,            \* return value or exception of the last completed call
    gpc,            \* position of NOVATime.get_group_options:
                    \* idle/loop/awaiting/returned/raised
    page,           \* get_group_options: the page asked for next
    group_options,  \* the shelf of the group: option value -> EntryCategory
    progress,       \* get_group_options: the progress task
    group_data,     \* get_group_options: the last page response received
    logged,         \* the warnings EntryCategoryGroup.update logged last
    pay_period,     \* NOVATime.timesheet.pay_period, set by login
    requested,      \* the pay_period argument of the get_timesheet call that
                    \* the records parsed last were downloaded by (None when
                    \* it was left out or get_times was called directly)
    posted          \* write_entries: the JSON body of the POST in flight

group_vars == <<gpc, page, group_options, progress, group_data, logged>>

client_vars == <<pay_period, requested, posted>>

vars == <<now, pc, raw_timesheet, entries, hours, ret,
          gpc, page, group_options, progress, group_data, logged,
          pay_period, requested, posted>>

---------------------------------------------------------------------------
(* Bounds of the model *)

\* longest raw list handed to get_times
MaxLen == 2
\* the last page the vendor lets get_group_options move on to
MaxPage == 3
\* the session's "now" is 10:00 on 2022-06-22 (a Wednesday) or on one of the
\* NowSpan following days (2022-06-26 is the Sunday)
NowSpan == 4

---------------------------------------------------------------------------
(* Values *)

None == [type |-> "None"]

Raise(exc, arg) == [type |-> "raise", exc |-> exc, arg |-> arg]

IsRaise(v) == v.type = "raise"

\* a text in PUNCH_FORMAT 'MM/DD/YYYY HH:mm:ss'
PunchStr(mo, dd, yyyy, hh, mi, ss) ==
    [type |-> "str", fmt |-> "MM/DD/YYYY HH:mm:ss",
     mdy |-> <<mo, dd, yyyy>>, hms |-> <<hh, mi, ss>>]

\* a text in the adjusted-punch format 'HH:mmA' (hour and minute, 24h value kept)
AdjustStr(hh, mi) ==
    [type |-> "str", fmt |-> "HH:mmA", mdy |-> <<>>, hms |-> <<hh, mi, 0>>]

Arrow(ord, sec, tz) == [type |-> "arrow", ord |-> ord, sec |-> sec, tz |-> tz]

\* a returned pair
Tuple(a, b) == [type |-> "tuple", items |-> <<a, b>>]

\* a Python list
List(items) == [type |-> "list", items |-> items]

\* a Python int or bool where it shares a place with None or a str
PyInt(n) == [type |-> "int", val |-> n]
PyBool(b) == [type |-> "bool", val |-> b]

\* the str ''
EmptyStr == [type |-> "str", fmt |-> "", mdy |-> <<>>, hms |-> <<>>]

\* bool(v) of a raw value that is None or a list
Truthy(v) == v.type = "list" /\ v.items # <<>>

---------------------------------------------------------------------------
(* Calendar arithmetic of datetime / arrow, as used by the calls below *)

IsLeap(y) == (y % 4 = 0) /\ ((y % 100 # 0) \/ (y % 400 = 0))

DaysInMonth(y, m) ==
    IF m = 2 THEN (IF IsLeap(y) THEN 29 ELSE 28)
    ELSE IF m \in {4, 6, 9, 11} THEN 30 ELSE 31

DaysBeforeYear(y) ==
    (y - 1) * 365 + ((y - 1) \div 4) - ((y - 1) \div 100) + ((y - 1) \div 400)

RECURSIVE DaysBeforeMonth(_, _)
DaysBeforeMonth(y, m) ==
    IF m = 1 THEN 0 ELSE DaysBeforeMonth(y, m - 1) + DaysInMonth(y, m - 1)

\* datetime.date(y, m, d).toordinal()
Ordinal(y, m, d) == DaysBeforeYear(y) + DaysBeforeMonth(y, m) + d

\* datetime.date.weekday(): Monday = 0 ... Sunday = 6
Weekday(ord) == (ord + 6) % 7

\* arrow + timedelta (no DST change inside the modelled dates)
AddSeconds(a, s) ==
    LET t == a.sec + s
    IN  Arrow(a.ord + (t \div 86400), t % 86400, a.tz)

\* arrow.floor('day')
FloorDay(a) == Arrow(a.ord, 0, a.tz)

\* arrow.shift(weekday=wd): dateutil relativedelta(weekday=wd) moves to the
\* first day on or after the date whose weekday is wd
ShiftWeekday(a, wd) == Arrow(a.ord + ((wd - Weekday(a.ord)) % 7), a.sec, a.tz)

\* arrow.shift(weeks=n)
ShiftWeeks(a, n) == Arrow(a.ord + 7 * n, a.sec, a.tz)

\* a < b on instants of one time zone
Before(a, b) == (a.ord < b.ord) \/ (a.ord = b.ord /\ a.sec < b.sec)

\* timedelta(hours=h) for h given in hundredths of an hour
TimedeltaHours(c) == c * 36

\* timedelta(minutes=m)
TimedeltaMinutes(m) == m * 60

\* timedelta.total_seconds()/3600.0, in hundredths of an hour
TotalHours(td) == td \div 36

\* timedelta.total_seconds()/60.0
TotalMinutes(td) == td \div 60

---------------------------------------------------------------------------
(* Date/time normalization *)

\* arrow.get(text, PUNCH_FORMAT).replace(tzinfo='America/Detroit')
ArrowGetPunch(s) ==
    IF /\ s.fmt = "MM/DD/YYYY HH:mm:ss"
       /\ s.mdy[1] \in 1..12
       /\ s.mdy[2] \in 1..DaysInMonth(s.mdy[3], s.mdy[1])
       /\ s.hms[1] \in 0..23 /\ s.hms[2] \in 0..59 /\ s.hms[3] \in 0..59
    THEN Arrow(Ordinal(s.mdy[3], s.mdy[1], s.mdy[2]),
               s.hms[1] * 3600 + s.hms[2] * 60 + s.hms[3],
               "America/Detroit")
    ELSE Raise("ParserError", s)

\* parse_punch handing an instant back floored to its day
parse_punch_floored(punch_str) ==
    IF punch_str.type = "str" THEN ArrowGetPunch(punch_str)
    ELSE IF punch_str.type = "arrow" THEN Arrow(punch_str.ord, 0, punch_str.tz)
    ELSE punch_str

parse_punch(punch_str) ==
    IF punch_str.type = "str" THEN ArrowGetPunch(punch_str) ELSE punch_str

\* a text in NOVA_DATE_FORMAT 'M/D/YYYY'
DateStr(mo, dd, yyyy) ==
    [type |-> "str", fmt |-> "M/D/YYYY", mdy |-> <<mo, dd, yyyy>>, hms |-> <<>>]

\* arrow.get(text, NOVA_DATE_FORMAT).replace(tzinfo='America/Detroit'): the
\* format is searched for in the text, so the date of a punch text is found
\* too; two arguments of which the first is no text are a TypeError
ArrowGetDate(s) ==
    IF s.type # "str" THEN Raise("TypeError", s)
    ELSE IF /\ s.fmt \in {"M/D/YYYY", "MM/DD/YYYY HH:mm:ss"}
            /\ s.mdy[1] \in 1..12
            /\ s.mdy[2] \in 1..DaysInMonth(s.mdy[3], s.mdy[1])
    THEN Arrow(Ordinal(s.mdy[3], s.mdy[1], s.mdy[2]), 0, "America/Detroit")
    ELSE Raise("ParserError", s)

parse_date(date_str) == ArrowGetDate(date_str)

\* DatePeriod(start, end): each end parsed by parse_punch, nothing compared
DatePeriod(start, end) ==
    LET period_start == parse_punch(start)
        period_end   == parse_punch(end)
    IN  IF IsRaise(period_start) THEN period_start
        ELSE IF IsRaise(period_end) THEN period_end
        ELSE [type |-> "DatePeriod", start |-> period_start, end |-> period_end]

---------------------------------------------------------------------------
(* Punch: the punch instant and the adjusted instant of one clock-in/out.  *)
(* The other attributes (gps, site, og, ...) are copied or parsed the same *)
(* way and are left out.                                                   *)

Unset == [type |-> "unset"]

\* arrow.get(adjust, "HH:mmA") then
\* arrow.get(datetime.combine(self.punch.date(), adjust.time()))
PunchAdjust(punch, adjust) ==
    IF adjust.fmt # "HH:mmA" THEN Raise("ParserError", adjust)
    ELSE IF punch.type # "arrow" THEN Raise("AttributeError", "date")
    ELSE Arrow(punch.ord, adjust.hms[1] * 3600 + adjust.hms[2] * 60, "UTC")

Punch(punch_arg, adjust_arg, modified) ==
    LET punch == parse_punch(punch_arg)
    IN  IF IsRaise(punch) THEN punch
        ELSE IF adjust_arg.type = "str"
        THEN LET adjust == PunchAdjust(punch, adjust_arg)
             IN  IF IsRaise(adjust) THEN adjust
                 ELSE [type |-> "Punch", punch |-> punch, adjust |-> adjust,
                       modified |-> modified]
        ELSE [type |-> "Punch", punch |-> punch, adjust |-> Unset,
              modified |-> modified]

---------------------------------------------------------------------------
(* A raw record is a flat mapping; reading a key it lacks is a KeyError.   *)

Has(entry, key) == key \in DOMAIN entry

\* KeyError raised without naming the key
KeyError_unnamed(key) == Raise("KeyError", "")

KeyError(key) == Raise("KeyError", key)

\* the first key of a sequence of keys the record lacks, or "" when it has
\* them all
FirstMissing(entry, keys) ==
    LET missing == {i \in 1..Len(keys) : ~Has(entry, keys[i])}
    IN  IF missing = {} THEN ""
        ELSE keys[CHOOSE i \in missing : \A j \in missing : i <= j]

---------------------------------------------------------------------------
(* EntryCategory: one option of a category group.                          *)

\* the keys EntryCategory.__init__ reads, in its order
EntryCategoryKeys ==
    <<"cDescription", "cGroupCode", "cGroupColor", "cGroupValue",
      "cGroupValueDescription", "iGroupNumber", "iGroupUserType",
      "iGroupValueSeq", "lClosed", "nGPSLatitude", "nGPSLongitude">>

\* GPS(latitude, longitude)
GPS(latitude, longitude) == [latitude |-> latitude, longitude |-> longitude]

GPS_to_dict(self) ==
    [nGPSLatitude |-> self.latitude, nGPSLongitude |-> self.longitude]

EntryCategory(group) ==
    IF FirstMissing(group, EntryCategoryKeys) # ""
    THEN KeyError(FirstMissing(group, EntryCategoryKeys))
    ELSE [type                    |-> "EntryCategory",
          description             |-> group.cDescription,
          group_code              |-> group.cGroupCode,
          group_color             |-> group.cGroupColor,
          value                   |-> group.cGroupValue,
          group_value_description |-> group.cGroupValueDescription,
          group_number            |-> group.iGroupNumber,
          group_user_type         |-> group.iGroupUserType,
          group_seq               |-> group.iGroupValueSeq,
          closed                  |-> group.lClosed,
          gps                     |-> GPS(group.nGPSLatitude, group.nGPSLongitude)]

\* d = {...}; d.update(self.gps.to_dict())
EntryCategory_to_dict(self) ==
    [type                   |-> "dict",
     iGroupNumber           |-> self.group_number,
     iGroupValueSeq         |-> self.group_seq,
     cGroupValue            |-> self.value,
     cGroupValueDescription |-> self.group_value_description,
     cGroupCode             |-> self.group_code,
     iGroupUserType         |-> self.group_user_type,
     cGroupColor            |-> self.group_color,
     cDescription           |-> self.description,
     lClosed                |-> self.closed]
    @@ GPS_to_dict(self.gps)

\* int(self.group_seq) of a sequence number that is an int already
EntryCategory_write_dict(self) ==
    [type                   |-> "dict",
     iGroupNumber           |-> self.group_number,
     iGroupValueSeq         |-> self.group_seq,
     cGroupValue            |-> self.value,
     cGroupValueDescription |-> self.group_value_description,
     isValid                |-> TRUE]

\* list(map(EntryCategory, groups)): the first option that fails ends it
RECURSIVE EntryCategories(_)
EntryCategories(groups) ==
    IF groups = <<>> THEN List(<<>>)
    ELSE LET option == EntryCategory(Head(groups))
         IN  IF IsRaise(option) THEN option
             ELSE LET rest == EntryCategories(Tail(groups))
                  IN  IF IsRaise(rest) THEN rest
                      ELSE List(<<option>> \o rest.items)

\* x = []; if raw: for group in raw: x.append(EntryCategory(group))
CategoryList(raw) ==
    IF Truthy(raw) THEN EntryCategories(raw.items) ELSE List(<<>>)

---------------------------------------------------------------------------
(* TimesheetEntry: one raw record <-> one entry.  The modelled keys are a  *)
(* slice of the vendor's flat namespace, read in the constructor's order.  *)

\* try: entry["iTimeSeq"] except KeyError: -1
EntrySequence(entry) == IF Has(entry, "iTimeSeq") THEN entry.iTimeSeq ELSE -1

\* the arguments of the two Punch(...) calls
InKeys == <<"dIn", "nAdjustIn", "lInMod">>
OutKeys == <<"dOut", "nAdjustOut", "lOutMod">>

\* the keys read between the punches and the category lists
ScalarKeys ==
    <<"nWorkHours", "nTotalHours", "nDailyHours", "nDailyTotalHours",
      "nPayCode", "nCodeType">>

\* the keys read after the category lists
LateKeys ==
    <<"lMissingPunchException", "lUnauthorizedOT", "nAutoMealMinutes",
      "lCalcOverride", "lRefTime", "nCalculate", "cNotes">>

TimesheetEntry(entry) ==
    IF ~Has(entry, "iTimesheetSeq") THEN KeyError("iTimesheetSeq")
    ELSE IF ~Has(entry, "iEmployeeSeq") THEN KeyError("iEmployeeSeq")
    ELSE IF ~Has(entry, "dPunchDate") THEN KeyError("dPunchDate")
    ELSE LET punch_date == parse_punch(entry.dPunchDate) IN
    IF IsRaise(punch_date) THEN punch_date
    ELSE IF ~Has(entry, "dWorkDate") THEN KeyError("dWorkDate")
    ELSE LET work_date == parse_punch(entry.dWorkDate) IN
    IF IsRaise(work_date) THEN work_date
    ELSE IF FirstMissing(entry, InKeys) # "" THEN KeyError(FirstMissing(entry, InKeys))
    ELSE LET punch_in == Punch(entry.dIn, entry.nAdjustIn, entry.lInMod) IN
    IF IsRaise(punch_in) THEN punch_in
    ELSE IF ~Has(entry, "dOut") THEN KeyError("dOut")
    ELSE IF entry.dOut # None /\ FirstMissing(entry, OutKeys) # ""
    THEN KeyError(FirstMissing(entry, OutKeys))
    ELSE LET punch_out == IF entry.dOut = None THEN None
                          ELSE Punch(entry.dOut, entry.nAdjustOut, entry.lOutMod) IN
    IF IsRaise(punch_out) THEN punch_out
    ELSE IF FirstMissing(entry, ScalarKeys) # ""
    THEN KeyError(FirstMissing(entry, ScalarKeys))
    ELSE IF ~Has(entry, "GroupValueList") THEN KeyError("GroupValueList")
    ELSE LET categories == CategoryList(entry.GroupValueList) IN
    IF IsRaise(categories) THEN categories
    ELSE IF ~Has(entry, "AccessibleGroupList") THEN KeyError("AccessibleGroupList")
    ELSE LET accessible_group_list == CategoryList(entry.AccessibleGroupList) IN
    IF IsRaise(accessible_group_list) THEN accessible_group_list
    ELSE IF ~Has(entry, "InvalidGroupList") THEN KeyError("InvalidGroupList")
    ELSE LET invalid_group_list == CategoryList(entry.InvalidGroupList) IN
    IF IsRaise(invalid_group_list) THEN invalid_group_list
    ELSE IF FirstMissing(entry, LateKeys) # ""
    THEN KeyError(FirstMissing(entry, LateKeys))
    ELSE [type                  |-> "TimesheetEntry",
          sheet_sequence        |-> entry.iTimesheetSeq,
          entry_sequence        |-> EntrySequence(entry),
          employee              |-> [employee_seq |-> entry.iEmployeeSeq],
          punch_date            |-> punch_date,
          work_date             |-> work_date,
          punch_in              |-> punch_in,
          punch_out             |-> punch_out,
          work_hours            |-> TimedeltaHours(entry.nWorkHours),
          total_hours           |-> TimedeltaHours(entry.nTotalHours),
          daily_hours           |-> TimedeltaHours(entry.nDailyHours),
          daily_total_hours     |-> TimedeltaHours(entry.nDailyTotalHours),
          pay_code              |-> [code      |-> entry.nPayCode,
                                     code_type |-> entry.nCodeType],
          categories            |-> categories.items,
          accessible_group_list |-> accessible_group_list.items,
          invalid_group_list    |-> invalid_group_list.items,
          exceptions            |->
              [missing_punch     |-> entry.lMissingPunchException,
               unauthorized_ot   |-> entry.lUnauthorizedOT,
               auto_meal_minutes |-> TimedeltaMinutes(entry.nAutoMealMinutes)],
          status                |-> [calc_override |-> entry.lCalcOverride,
                                     ref_time      |-> entry.lRefTime,
                                     calculate     |-> entry.nCalculate],
          note                  |-> [notes |-> entry.cNotes],
          copy_color            |-> "darkgrey"]

\* [f(category) for category in categories] or None
RECURSIVE MapCategories(_, _)
MapCategories(categories, write) ==
    IF categories = <<>> THEN <<>>
    ELSE <<IF write THEN EntryCategory_write_dict(Head(categories))
           ELSE EntryCategory_to_dict(Head(categories))>>
         \o MapCategories(Tail(categories), write)

ListOrNone(items) == IF items = <<>> THEN None ELSE List(items)

\* the dict literal and updates of to_dict; an attribute read that fails
\* raises before the dict exists
to_dict_d(self) ==
    IF self.punch_in.adjust = Unset THEN Raise("AttributeError", "adjust")
    ELSE IF self.punch_out = None THEN Raise("AttributeError", "punch")
    ELSE IF self.punch_out.adjust = Unset THEN Raise("AttributeError", "adjust")
    ELSE [type                   |-> "dict",
          iTimesheetSeq          |-> self.sheet_sequence,
          iTimeSeq               |-> self.entry_sequence,
          dPunchDate             |-> self.punch_date,
          dWorkDate              |-> self.work_date,
          nWorkHours             |-> TotalHours(self.work_hours),
          nTotalHours            |-> TotalHours(self.total_hours),
          nDailyHours            |-> TotalHours(self.daily_hours),
          nDailyTotalHours       |-> TotalHours(self.daily_total_hours),
          iEmployeeSeq           |-> self.employee.employee_seq,
          dIn                    |-> self.punch_in.punch,
          nAdjustIn              |-> self.punch_in.adjust,
          lInMod                 |-> self.punch_in.modified,
          dOut                   |-> self.punch_out.punch,
          nAdjustOut             |-> self.punch_out.adjust,
          lOutMod                |-> self.punch_out.modified,
          nPayCode               |-> self.pay_code.code,
          nCodeType              |-> self.pay_code.code_type,
          GroupValueList         |-> ListOrNone(MapCategories(self.categories, FALSE)),
          AccessibleGroupList    |->
              ListOrNone(MapCategories(self.accessible_group_list, FALSE)),
          InvalidGroupList       |->
              ListOrNone(MapCategories(self.invalid_group_list, FALSE)),
          lMissingPunchException |-> self.exceptions.missing_punch,
          lUnauthorizedOT        |-> self.exceptions.unauthorized_ot,
          nAutoMealMinutes       |-> TotalMinutes(self.exceptions.auto_meal_minutes),
          lCalcOverride          |-> self.status.calc_override,
          lRefTime               |-> self.status.ref_time,
          nCalculate             |-> self.status.calculate,
          cNotes                 |-> self.note.notes]

\* to_dict builds d and ends without a return statement
to_dict(self) ==
    LET d == to_dict_d(self)
    IN  IF IsRaise(d) THEN d ELSE None

---------------------------------------------------------------------------
(* TimesheetEntry.write_dict: the mapping posted back to the vendor *)

\* the (month, day, year) of an ordinal day of 2022
DateOf(ord) ==
    LET day_of_year == ord - DaysBeforeYear(2022)
        month == CHOOSE m \in 1..12 :
                     /\ DaysBeforeMonth(2022, m) < day_of_year
                     /\ day_of_year <= DaysBeforeMonth(2022, m) + DaysInMonth(2022, m)
    IN  <<month, day_of_year - DaysBeforeMonth(2022, month), 2022>>

\* arrow.to('utc'): America/Detroit is four hours behind UTC on the modelled
\* (summer) dates
ToUtc(a) == IF a.tz = "UTC" THEN a ELSE [AddSeconds(a, 4 * 3600) EXCEPT !.tz = "UTC"]

\* arrow.format(WRITE_ENTRY_FORMAT), 'YYYY-MM-DDTHH:mm:ss.SSS[Z]'
FormatWriteEntry(a) ==
    [type |-> "str", fmt |-> "YYYY-MM-DDTHH:mm:ss.SSS[Z]",
     mdy |-> DateOf(a.ord),
     hms |-> <<a.sec \div 3600, (a.sec \div 60) % 60, a.sec % 60>>]

\* modified or ""
OrEmptyStr(modified) == IF modified THEN PyBool(TRUE) ELSE EmptyStr

\* write_dict_d giving an entry without out-punch the in-punch as its dOut
write_dict_d_guessed_out(self) ==
    IF self.punch_date.type # "arrow" THEN Raise("AttributeError", "to")
    ELSE IF self.work_date.type # "arrow" THEN Raise("AttributeError", "to")
    ELSE IF self.punch_in.punch.type # "arrow" THEN Raise("AttributeError", "to")
    ELSE [type               |-> "dict",
          iTimeSeq           |-> self.entry_sequence,
          iEmployeeSeq       |-> self.employee.employee_seq,
          copyColor          |-> self.copy_color,
          lUnauthorizedOT    |-> self.exceptions.unauthorized_ot,
          lCalcOverride      |-> self.status.calc_override,
          iTimesheetSeq      |-> self.sheet_sequence,
          cIn_Mod            |-> OrEmptyStr(self.punch_in.modified),
          cOut_Mod           |-> IF self.punch_out = None THEN EmptyStr
                                ELSE OrEmptyStr(self.punch_out.modified),
          isUnEditable       |-> FALSE,
          payCodeDisplayText |-> EmptyStr,
          dPunchDate         |-> FormatWriteEntry(ToUtc(self.punch_date)),
          dWorkDate          |-> FormatWriteEntry(ToUtc(self.work_date)),
          nPayCode           |-> self.pay_code.code,
          nCodeType          |-> self.pay_code.code_type,
          nCalculate         |-> self.status.calculate,
          lRefTime           |-> self.status.ref_time,
          lChanged           |-> TRUE,
          dIn                |-> FormatWriteEntry(ToUtc(self.punch_in.punch)),
          dOut               |-> IF self.punch_out = None
                                THEN FormatWriteEntry(ToUtc(self.punch_in.punch))
                                ELSE FormatWriteEntry(ToUtc(self.punch_out.punch))]

\* the dict literal of write_dict, its values read in the order written; an
\* attribute read that fails raises before the dict exists
write_dict_d(self) ==
    IF self.punch_out = None THEN Raise("AttributeError", "modified")
    ELSE IF self.punch_date.type # "arrow" THEN Raise("AttributeError", "to")
    ELSE IF self.work_date.type # "arrow" THEN Raise("AttributeError", "to")
    ELSE IF self.punch_in.punch.type # "arrow" THEN Raise("AttributeError", "to")
    ELSE IF self.punch_out.punch.type # "arrow" THEN Raise("AttributeError", "to")
    ELSE [type               |-> "dict",
          iTimeSeq           |-> self.entry_sequence,
          iEmployeeSeq       |-> self.employee.employee_seq,
          copyColor          |-> self.copy_color,
          lUnauthorizedOT    |-> self.exceptions.unauthorized_ot,
          lCalcOverride      |-> self.status.calc_override,
          iTimesheetSeq      |-> self.sheet_sequence,
          cIn_Mod            |-> OrEmptyStr(self.punch_in.modified),
          cOut_Mod           |-> OrEmptyStr(self.punch_out.modified),
          isUnEditable       |-> FALSE,
          payCodeDisplayText |-> EmptyStr,
          dPunchDate         |-> FormatWriteEntry(ToUtc(self.punch_date)),
          dWorkDate          |-> FormatWriteEntry(ToUtc(self.work_date)),
          nPayCode           |-> self.pay_code.code,
          nCodeType          |-> self.pay_code.code_type,
          nCalculate         |-> self.status.calculate,
          lRefTime           |-> self.status.ref_time,
          lChanged           |-> TRUE,
          dIn                |-> FormatWriteEntry(ToUtc(self.punch_in.punch)),
          dOut               |-> FormatWriteEntry(ToUtc(self.punch_out.punch))]

\* the keys write_dict adds to the literal
WriteDictUpdate(self) ==
    [GroupValueList      |->
         ListOrNone(MapCategories(
             SubSeq(self.categories, 1,
                    IF Len(self.categories) < 4 THEN Len(self.categories) ELSE 4),
             TRUE)),
     focusGroup          |-> 0,
     cNotes              |-> self.note.notes,
     lHasError           |-> FALSE,
     lAllowOverlapHours  |-> FALSE,
     isPAPaycode         |-> FALSE,
     lOverlappingTime    |-> FALSE,
     lPendingCalc        |-> TRUE]

\* write_dict leaving GroupValueList out when the entry has no category, and
\* copying the vendor's nWorkHours
write_dict_by_contents(self) ==
    LET d == write_dict_d(self)
        u == WriteDictUpdate(self)
    IN  IF IsRaise(d) THEN d
        ELSE IF self.categories = <<>>
        THEN [k \in DOMAIN u \ {"GroupValueList"} |-> u[k]] @@ d
        ELSE ("nWorkHours" :> TotalHours(self.work_hours)) @@ u @@ d

write_dict(self) ==
    LET d == write_dict_d(self)
    IN  IF IsRaise(d) THEN d ELSE WriteDictUpdate(self) @@ d

---------------------------------------------------------------------------
(* NOVATime.write_entries: the JSON body                                   *)

\* the list of write_dict results with the entries that fail left out
RECURSIVE new_entries_skip_failed(_)
new_entries_skip_failed(entry_list) ==
    IF entry_list = <<>> THEN List(<<>>)
    ELSE LET d    == write_dict(Head(entry_list))
             rest == new_entries_skip_failed(Tail(entry_list))
         IN  IF IsRaise(d) THEN rest ELSE List(<<d>> \o rest.items)

\* new_entries = [entry.write_dict() for entry in entries]: the first
\* write_dict that fails ends the comprehension
RECURSIVE new_entries(_)
new_entries(entry_list) ==
    IF entry_list = <<>> THEN List(<<>>)
    ELSE LET d == write_dict(Head(entry_list))
         IN  IF IsRaise(d) THEN d
             ELSE LET rest == new_entries(Tail(entry_list))
                  IN  IF IsRaise(rest) THEN rest ELSE List(<<d>> \o rest.items)

\* the test of the response to the POST
WriteError(response) ==
    IF ~response.ok
    THEN Raise("ValueError", [code        |-> response.status_code,
                              description |-> response.reason])
    ELSE IF response.errorCode # 1 THEN Raise("ValueError", response)
    ELSE None

---------------------------------------------------------------------------
(* Timesheet *)

\* HourTotals(last_week=timedelta(hours=0), this_week=..., total=...)
ZeroHours == [type |-> "HourTotals", last_week |-> 0, this_week |-> 0, total |-> 0]

\* self.entries = {}
NoEntries == [date \in {} |-> <<>>]

is_this_week(nw, date) ==
    LET this_sunday == FloorDay(ShiftWeekday(nw, 6))
        last_sunday == FloorDay(ShiftWeeks(this_sunday, -1))
    IN  ~Before(date, last_sunday) /\ Before(date, this_sunday)

\* AppendEntry with the date's list replaced instead of extended
AppendEntry_overwrite(ents, entry) ==
    IF entry.punch_date \in DOMAIN ents
    THEN [ents EXCEPT ![entry.punch_date] = <<entry>>]
    ELSE (entry.punch_date :> <<entry>>) @@ ents

\* if entry.punch_date not in self.entries: self.entries[entry.punch_date] = []
\* self.entries[entry.punch_date].append(entry)
AppendEntry(ents, entry) ==
    IF entry.punch_date \in DOMAIN ents
    THEN [ents EXCEPT ![entry.punch_date] = Append(@, entry)]
    ELSE (entry.punch_date :> <<entry>>) @@ ents

\* Accumulate summing daily_hours in place of daily_total_hours
Accumulate_daily_hours(h, entry, nw) ==
    IF entry.punch_date.type # "arrow" THEN Raise("AttributeError", "is_between")
    ELSE IF is_this_week(nw, entry.punch_date)
    THEN [h EXCEPT !.this_week = @ + entry.daily_hours,
                   !.total = @ + entry.daily_hours]
    ELSE [h EXCEPT !.last_week = @ + entry.daily_hours,
                   !.total = @ + entry.daily_hours]

\* Accumulate adding to the total only what is added to this week
Accumulate_total_of_this_week(h, entry, nw) ==
    IF entry.punch_date.type # "arrow" THEN Raise("AttributeError", "is_between")
    ELSE IF is_this_week(nw, entry.punch_date)
    THEN [h EXCEPT !.this_week = @ + entry.daily_total_hours,
                   !.total = @ + entry.daily_total_hours]
    ELSE [h EXCEPT !.last_week = @ + entry.daily_total_hours]

\* the week split and the total of one loop pass; date.is_between fails on a
\* punch date that is not an arrow
Accumulate(h, entry, nw) ==
    IF entry.punch_date.type # "arrow" THEN Raise("AttributeError", "is_between")
    ELSE IF is_this_week(nw, entry.punch_date)
    THEN [h EXCEPT !.this_week = @ + entry.daily_total_hours,
                   !.total = @ + entry.daily_total_hours]
    ELSE [h EXCEPT !.last_week = @ + entry.daily_total_hours,
                   !.total = @ + entry.daily_total_hours]

\* PredictLoop adding the meal from 8 hours on (>= for >)
RECURSIVE PredictLoop_meal_from_8h(_, _, _, _)
PredictLoop_meal_from_8h(today, i, remaining, result) ==
    IF i > Len(today) THEN result
    ELSE LET entry == today[i]
             clock_in == entry.punch_in.punch
         IN  IF entry.exceptions.missing_punch
             THEN IF clock_in.type # "arrow" THEN Raise("TypeError", "+")
                  ELSE LET clock_out == AddSeconds(clock_in, remaining)
                       IN  PredictLoop_meal_from_8h(today, i + 1, remaining,
                               Tuple(clock_in,
                                     IF remaining >= 8 * 3600
                                     THEN AddSeconds(clock_out,
                                              entry.exceptions.auto_meal_minutes)
                                     ELSE clock_out))
             ELSE PredictLoop_meal_from_8h(today, i + 1, remaining, Tuple(clock_in, None))

\* PredictLoop keeping an open shift found earlier in the day: an entry
\* without missing_punch no longer resets the prediction
RECURSIVE PredictLoop_open_shift_kept(_, _, _, _)
PredictLoop_open_shift_kept(today, i, remaining, result) ==
    IF i > Len(today) THEN result
    ELSE LET entry == today[i]
             clock_in == entry.punch_in.punch
         IN  IF entry.exceptions.missing_punch
             THEN IF clock_in.type # "arrow" THEN Raise("TypeError", "+")
                  ELSE LET clock_out == AddSeconds(clock_in, remaining)
                       IN  PredictLoop_open_shift_kept(today, i + 1, remaining,
                               Tuple(clock_in,
                                     IF remaining > 8 * 3600
                                     THEN AddSeconds(clock_out,
                                              entry.exceptions.auto_meal_minutes)
                                     ELSE clock_out))
             ELSE PredictLoop_open_shift_kept(today, i + 1, remaining,
                      IF result.items[2] = None THEN Tuple(clock_in, None) ELSE result)

\* what predict_clock_out computes from today's entries, the last pass of the
\* loop deciding; None + timedelta is a TypeError
RECURSIVE PredictLoop(_, _, _, _)
PredictLoop(today, i, remaining, result) ==
    IF i > Len(today) THEN result
    ELSE LET entry == today[i]
             clock_in == entry.punch_in.punch
         IN  IF entry.exceptions.missing_punch
             THEN IF clock_in.type # "arrow" THEN Raise("TypeError", "+")
                  ELSE LET clock_out == AddSeconds(clock_in, remaining)
                       IN  PredictLoop(today, i + 1, remaining,
                               Tuple(clock_in,
                                     IF remaining > 8 * 3600
                                     THEN AddSeconds(clock_out,
                                              entry.exceptions.auto_meal_minutes)
                                     ELSE clock_out))
             ELSE PredictLoop(today, i + 1, remaining, Tuple(clock_in, None))

\* predict_clock_out_value falling back to another day's entries when today
\* has none
predict_clock_out_value_any_day(ents, nw, remaining) ==
    LET today == FloorDay(nw)
    IN  IF today \in DOMAIN ents
        THEN PredictLoop(ents[today], 1, remaining, Tuple(None, None))
        ELSE IF DOMAIN ents = {} THEN Tuple(None, None)
        ELSE PredictLoop(ents[CHOOSE date \in DOMAIN ents : TRUE], 1, remaining,
                         Tuple(None, None))

predict_clock_out_value(ents, nw, remaining) ==
    LET today == FloorDay(nw)
    IN  IF today \notin DOMAIN ents THEN Tuple(None, None)
        ELSE PredictLoop(ents[today], 1, remaining, Tuple(None, None))

---------------------------------------------------------------------------
(* Value objects with unit conversion.  Hours are stored as timedelta      *)
(* (seconds) and given back as total_seconds()/3600.0, minutes as          *)
(* total_seconds()/60.0.                                                   *)

\* the keys f"n{ot_type}OT1Hours" ... f"n{ot_type}OT5Hours"
HoursKeys(ot_type) ==
    IF ot_type = ""
    THEN <<"nOT1Hours", "nOT2Hours", "nOT3Hours", "nOT4Hours", "nOT5Hours">>
    ELSE IF ot_type = "Comp"
    THEN <<"nCompOT1Hours", "nCompOT2Hours", "nCompOT3Hours", "nCompOT4Hours",
           "nCompOT5Hours">>
    ELSE IF ot_type = "RawComp"
    THEN <<"nRawCompOT1Hours", "nRawCompOT2Hours", "nRawCompOT3Hours",
           "nRawCompOT4Hours", "nRawCompOT5Hours">>
    ELSE <<"nRedirectOT1Hours", "nRedirectOT2Hours", "nRedirectOT3Hours",
           "nRedirectOT4Hours", "nRedirectOT5Hours">>

HoursGroup(overtime_1, overtime_2, overtime_3, overtime_4, overtime_5, ot_type) ==
    [type       |-> "HoursGroup",
     overtime_1 |-> TimedeltaHours(overtime_1),
     overtime_2 |-> TimedeltaHours(overtime_2),
     overtime_3 |-> TimedeltaHours(overtime_3),
     overtime_4 |-> TimedeltaHours(overtime_4),
     overtime_5 |-> TimedeltaHours(overtime_5),
     ot_type    |-> ot_type]

\* HoursGroup.to_dict writing the keys of the unlabelled group whatever the
\* label
HoursGroup_to_dict_unlabelled(self) ==
    LET key == HoursKeys("")
    IN  (key[1] :> TotalHours(self.overtime_1))
        @@ (key[2] :> TotalHours(self.overtime_2))
        @@ (key[3] :> TotalHours(self.overtime_3))
        @@ (key[4] :> TotalHours(self.overtime_4))
        @@ (key[5] :> TotalHours(self.overtime_5))

HoursGroup_to_dict(self) ==
    LET key == HoursKeys(self.ot_type)
    IN  (key[1] :> TotalHours(self.overtime_1))
        @@ (key[2] :> TotalHours(self.overtime_2))
        @@ (key[3] :> TotalHours(self.overtime_3))
        @@ (key[4] :> TotalHours(self.overtime_4))
        @@ (key[5] :> TotalHours(self.overtime_5))

\* the four HoursGroup attributes TimesheetEntry.__init__ builds from a record
overtime_hours(entry) ==
    HoursGroup(entry.nOT1Hours, entry.nOT2Hours, entry.nOT3Hours,
               entry.nOT4Hours, entry.nOT5Hours, "")

comp_overtime_hours(entry) ==
    HoursGroup(entry.nCompOT1Hours, entry.nCompOT2Hours, entry.nCompOT3Hours,
               entry.nCompOT4Hours, entry.nCompOT5Hours, "Comp")

raw_comp_overtime_hours(entry) ==
    HoursGroup(entry.nRawCompOT1Hours, entry.nRawCompOT2Hours,
               entry.nRawCompOT3Hours, entry.nRawCompOT4Hours,
               entry.nRawCompOT5Hours, "RawComp")

redirect_overtime_hours(entry) ==
    HoursGroup(entry.nRedirectOT1Hours, entry.nRedirectOT2Hours,
               entry.nRedirectOT3Hours, entry.nRedirectOT4Hours,
               entry.nRedirectOT5Hours, "Redirect")

\* self.schedule = Schedule(schedule=entry["cSchedule"], ...)
Schedule(entry) ==
    [type                              |-> "Schedule",
     schedule                          |-> entry.cSchedule,
     is_schedule_premium               |-> entry.isSchedulePremium,
     is_schedule_premium_user_override |-> entry.isSchedulePremiumUserOverride,
     schedule_hours                    |-> TimedeltaHours(entry.nScheduleHours),
     grouping_string                   |-> entry.SchGroupingString]

Schedule_to_dict(self) ==
    [cSchedule                     |-> self.schedule,
     isSchedulePremium             |-> self.is_schedule_premium,
     isSchedulePremiumUserOverride |-> self.is_schedule_premium_user_override,
     nScheduleHours                |-> TotalHours(self.schedule_hours),
     SchGroupingString             |-> self.grouping_string]

\* self.exceptions = TimesheetEntryException(break_desc=entry['cBreakException'], ...)
\* with every attribute (TimesheetEntry above keeps the three it is read for)
TimesheetEntryException(entry) ==
    [type                  |-> "TimesheetEntryException",
     break_desc            |-> entry.cBreakException,
     meal_desc             |-> entry.cMealException,
     auto_deduct_meal      |-> entry.lAutoDeductMealException,
     auto_meal_waived      |-> entry.lAutoMealWaivedException,
     early_in              |-> entry.lEarlyInException,
     early_out             |-> entry.lEarlyOutException,
     early_out_grace       |-> entry.lEarlyOutGraceException,
     late_out              |-> entry.lLateOutException,
     late_out_to_meal      |-> entry.lLateOutToMealException,
     meal_break_premium    |-> entry.lMealBreakPremiumException,
     missing_punch         |-> entry.lMissingPunchException,
     over_pay              |-> entry.lOverPayException,
     overtime              |-> entry.lOvertimeException,
     tardy                 |-> entry.lTardyException,
     tardy_grace           |-> entry.lTardyGraceException,
     unauthorized_ot       |-> entry.lUnauthorizedOT,
     unconfirmed_in        |-> entry.lUnconfirmedInException,
     unconfirmed_in_punch  |-> entry.lUnconfirmedInPunch,
     unconfirmed_out       |-> entry.lUnconfirmedOutException,
     unconfirmed_out_punch |-> entry.lUnconfirmedOutPunch,
     unconfirmed_punch     |-> entry.lUnconfirmedPunchException,
     under_pay             |-> entry.lUnderPayException,
     unpaid_break          |-> entry.lUnpaidBreakException,
     auto_meal_minutes     |-> TimedeltaMinutes(entry.nAutoMealMinutes),
     early_out_minutes     |-> TimedeltaMinutes(entry.nEarlyOutMinutes),
     long_meal             |-> entry.nLongMeal,
     meal_val_minutes      |-> TimedeltaMinutes(entry.nMealValMinutes),
     quantity_bad          |-> entry.nQuantityBad,
     quantity_good         |-> entry.nQuantityGood,
     tardy_minutes         |-> TimedeltaMinutes(entry.nTardyMinutes)]

TimesheetEntryException_to_dict(self) ==
    [cBreakException            |-> self.break_desc,
     cMealException             |-> self.meal_desc,
     lAutoDeductMealException   |-> self.auto_deduct_meal,
     lAutoMealWaivedException   |-> self.auto_meal_waived,
     lEarlyInException          |-> self.early_in,
     lEarlyOutException         |-> self.early_out,
     lEarlyOutGraceException    |-> self.early_out_grace,
     lLateOutException          |-> self.late_out,
     lLateOutToMealException    |-> self.late_out_to_meal,
     lMealBreakPremiumException |-> self.meal_break_premium,
     lMissingPunchException     |-> self.missing_punch,
     lOverPayException          |-> self.over_pay,
     lOvertimeException         |-> self.overtime,
     lTardyException            |-> self.tardy,
     lTardyGraceException       |-> self.tardy_grace,
     lUnauthorizedOT            |-> self.unauthorized_ot,
     lUnconfirmedInException    |-> self.unconfirmed_in,
     lUnconfirmedInPunch        |-> self.unconfirmed_in_punch,
     lUnconfirmedOutException   |-> self.unconfirmed_out,
     lUnconfirmedOutPunch       |-> self.unconfirmed_out_punch,
     lUnconfirmedPunchException |-> self.unconfirmed_punch,
     lUnderPayException         |-> self.under_pay,
     lUnpaidBreakException      |-> self.unpaid_break,
     nAutoMealMinutes           |-> TotalMinutes(self.auto_meal_minutes),
     nEarlyOutMinutes           |-> TotalMinutes(self.early_out_minutes),
     nLongMeal                  |-> self.long_meal,
     nMealValMinutes            |-> TotalMinutes(self.meal_val_minutes),
     nQuantityBad               |-> self.quantity_bad,
     nQuantityGood              |-> self.quantity_good,
     nTardyMinutes              |-> TotalMinutes(self.tardy_minutes)]

---------------------------------------------------------------------------
(* get_current_pay_period of src/get_timesheet.py.  arrow.shift(weeks=n,   *)
(* weekday=wd) adds the weeks, then moves to the first day on or after     *)
(* the result whose weekday is wd (dateutil relativedelta).                *)

\* get_current_pay_period taking the start two weeks before the end
get_current_pay_period_two_weeks_back(last_pay) ==
    LET end_date   == ShiftWeekday(ShiftWeeks(last_pay, 1), 6)
        start_date == ShiftWeeks(end_date, -2)
    IN  Tuple(start_date, end_date)

get_current_pay_period(last_pay) ==
    LET end_date   == ShiftWeekday(ShiftWeeks(last_pay, 1), 6)
        start_date == ShiftWeekday(ShiftWeeks(end_date, -2), 0)
    IN  Tuple(start_date, end_date)

---------------------------------------------------------------------------
(* NOVATime.get_timesheet: the test of the downloaded response             *)

\* the response read without the DataList test: raw_timesheet['DataList']
NotAuthorized_key_error(response) ==
    IF ~Has(response, "DataList") THEN KeyError("DataList") ELSE None

\* if 'DataList' not in raw_timesheet: raise AttributeError('Not authorized, ...')
NotAuthorized(response) ==
    IF ~Has(response, "DataList")
    THEN Raise("AttributeError", "Not authorized, please check secrets.ini")
    ELSE None

---------------------------------------------------------------------------
(* EntryCategoryGroup: the shelf pay/<name>, a mapping kept on disk from    *)
(* option value to EntryCategory                                            *)

\* a shelf no option was stored in yet
NoOptions == [value \in {} |-> None]

\* update(options); warned collects the "Overwriting" warnings
RECURSIVE update(_, _, _)
update(shelf, options, warned) ==
    IF options = <<>> THEN [group_options |-> shelf, logged |-> warned]
    ELSE LET option == Head(options)
         IN  update((option.value :> option) @@ shelf,
                    Tail(options),
                    IF option.value \in DOMAIN shelf
                    THEN Append(warned, [old |-> shelf[option.value],
                                         new |-> option])
                    ELSE warned)

\* len(shelf)
ShelfLen(shelf) == Cardinality(DOMAIN shelf)

---------------------------------------------------------------------------
(* The task_now task of get_group_options (rich.progress)                  *)

\* task_now.add_task(description, total=None)
NewTask == [total |-> None, completed |-> 0, finished |-> FALSE]

\* Progress.update(task, total=, completed=, advance=); an argument left out
\* is None.  A changed total resets the task; the task is finished once
\* completed >= total.
ProgressUpdate(task, total, completed, advance) ==
    LET t1 == IF total # None /\ total # task.total
              THEN [task EXCEPT !.total = total, !.finished = FALSE]
              ELSE task
        t2 == IF advance # None THEN [t1 EXCEPT !.completed = @ + advance.val] ELSE t1
        t3 == IF completed # None THEN [t2 EXCEPT !.completed = completed.val] ELSE t2
    IN  IF t3.total # None /\ t3.completed >= t3.total.val
        THEN [t3 EXCEPT !.finished = TRUE]
        ELSE t3

---------------------------------------------------------------------------
(* NOVATime.get_group_options: one pass of the paging loop                 *)

\* a at_page response of /Group/GetPagedGroups
PageResponse(code, description, items, paged_list) ==
    [errorCode        |-> code,
     errorDescription |-> description,
     Data             |-> [ItemTotal |-> items, PagedList |-> paged_list]]

\* GroupError raising on negative codes only
GroupError_negative_only(data) ==
    IF data.errorCode < 0
    THEN Raise("ValueError", [code        |-> data.errorCode,
                              description |-> data.errorDescription])
    ELSE None

\* if data['_errorCode'] != 1: raise ValueError(... code - description)
GroupError(data) ==
    IF data.errorCode # 1
    THEN Raise("ValueError", [code        |-> data.errorCode,
                              description |-> data.errorDescription])
    ELSE None

\* the object get_group_options returns
EntryCategoryGroup == [type |-> "EntryCategoryGroup", name |-> "Location"]

\* LoopPass merging the page before the count is compared with ItemTotal
LoopPass_merge_first(shelf, at_page, task_now, data) ==
    LET error == GroupError(data)
        items == data.Data.ItemTotal
        same  == [page |-> at_page, progress |-> task_now,
                  group_options |-> shelf, logged |-> <<>>]
    IN  IF IsRaise(error) THEN [gpc |-> "raised", val |-> error] @@ same
        ELSE LET options == EntryCategories(data.Data.PagedList)
             IN  IF IsRaise(options)
                 THEN [gpc |-> "raised", val |-> options] @@ same
                 ELSE LET merged == update(shelf, options.items, <<>>)
                          done   == ShelfLen(merged.group_options) >= items
                      IN  [gpc           |-> IF done THEN "returned" ELSE "loop",
                           val           |-> IF done THEN EntryCategoryGroup ELSE None,
                           page          |-> IF done THEN at_page ELSE at_page + 1,
                           progress      |-> task_now,
                           group_options |-> merged.group_options,
                           logged        |-> merged.logged]

\* the body of the while loop from the response on, and the loop test after
\* it: the position, at_page, task and shelf it leaves
LoopPass(shelf, at_page, task_now, data) ==
    LET error == GroupError(data)
        items == data.Data.ItemTotal
        paged == data.Data.PagedList
        same  == [page |-> at_page, progress |-> task_now,
                  group_options |-> shelf, logged |-> <<>>]
    IN  IF IsRaise(error) THEN [gpc |-> "raised", val |-> error] @@ same
        ELSE IF ShelfLen(shelf) = items
        THEN [gpc |-> "returned", val |-> EntryCategoryGroup,
              progress |-> ProgressUpdate(task_now, None, PyInt(1), None)] @@ same
        ELSE LET p1 == IF at_page = 1
                       THEN ProgressUpdate(task_now, PyInt(items), None, None)
                       ELSE task_now
                 p2 == ProgressUpdate(p1, None, None, PyInt(Len(paged)))
                 options == EntryCategories(paged)
             IN  IF IsRaise(options)
                 THEN [gpc |-> "raised", val |-> options, progress |-> p2] @@ same
                 ELSE LET merged == update(shelf, options.items, <<>>)
                      IN  [gpc           |-> IF p2.finished THEN "returned" ELSE "loop",
                           val           |-> IF p2.finished THEN EntryCategoryGroup
                                             ELSE None,
                           page          |-> IF ShelfLen(merged.group_options) < items
                                             THEN at_page + 1 ELSE at_page,
                           progress      |-> p2,
                           group_options |-> merged.group_options,
                           logged        |-> merged.logged]

---------------------------------------------------------------------------
(* The raw records the vendor may send: days of June 2022 *)

Midnight(dd) == PunchStr(6, dd, 2022, 0, 0, 0)

\* one option of a category group as the vendor sends it
RawGroup(value, seq, description) ==
    [cDescription           |-> description,
     cGroupCode             |-> "LOC",
     cGroupColor            |-> "#808080",
     cGroupValue            |-> value,
     cGroupValueDescription |-> value,
     iGroupNumber           |-> 1,
     iGroupUserType         |-> 0,
     iGroupValueSeq         |-> seq,
     lClosed                |-> FALSE,
     nGPSLatitude           |-> 42,
     nGPSLongitude          |-> -83]

\* the options the vendor may send: option 100 under two descriptions, option
\* 200, and option 300 carrying the sequence number of option 100
RawGroups ==
    { RawGroup("100", 1, "Shop"), RawGroup("100", 1, "Workshop"),
      RawGroup("200", 2, "Office"), RawGroup("300", 1, "Shop (moved)") }

\* the categories of the record of a day: none (null) on most days, one on
\* the 20th, five on the 21st
GroupValueListOf(dd) ==
    IF dd = 20 THEN List(<<RawGroup("100", 1, "Shop")>>)
    ELSE IF dd = 21
    THEN List(<<RawGroup("100", 1, "Shop"), RawGroup("200", 2, "Office"),
               RawGroup("300", 3, "Yard"), RawGroup("400", 4, "Lab"),
               RawGroup("500", 5, "Dock")>>)
    ELSE None

RawRecord(dd, in_hh, out_hh, daily, daily_total, missing, meal) ==
    [iTimesheetSeq          |-> 1,
     iTimeSeq               |-> dd,
     iEmployeeSeq           |-> 7,
     dPunchDate             |-> Midnight(dd),
     dWorkDate              |-> Midnight(dd),
     dIn                    |-> IF in_hh < 0 THEN None
                                ELSE PunchStr(6, dd, 2022, in_hh, 0, 0),
     nAdjustIn              |-> IF in_hh < 0 THEN None ELSE AdjustStr(in_hh, 0),
     lInMod                 |-> (dd % 2 = 1),
     dOut                   |-> IF out_hh < 0 THEN None
                                ELSE PunchStr(6, dd, 2022, out_hh, 0, 0),
     nAdjustOut             |-> IF out_hh < 0 THEN None ELSE AdjustStr(out_hh, 0),
     lOutMod                |-> FALSE,
     nWorkHours             |-> daily,
     nTotalHours            |-> daily,
     nDailyHours            |-> daily,
     nDailyTotalHours       |-> daily_total,
     nPayCode               |-> 0,
     nCodeType              |-> 0,
     GroupValueList         |-> GroupValueListOf(dd),
     AccessibleGroupList    |-> None,
     InvalidGroupList       |-> None,
     lMissingPunchException |-> missing,
     lUnauthorizedOT        |-> FALSE,
     nAutoMealMinutes       |-> meal,
     lCalcOverride          |-> FALSE,
     lRefTime               |-> FALSE,
     nCalculate             |-> 0,
     cNotes                 |-> EmptyStr]

\* a full day, 09:00 to 17:00, 8.00 hours
ClosedDay(dd) == RawRecord(dd, 9, 17, 800, 800, FALSE, 30)

\* records of Wednesday 2022-06-22: open shifts from 09:00 and from 13:00, a
\* closed morning, a day with the in-punch missing, a day with no punch
TodayRecords ==
    { RawRecord(22, 9, -1, 0, 300, TRUE, 30),
      RawRecord(22, 13, -1, 0, 300, TRUE, 45),
      RawRecord(22, 9, 12, 300, 300, FALSE, 30),
      RawRecord(22, -1, -1, 0, 0, TRUE, 30),
      RawRecord(22, -1, -1, 0, 0, FALSE, 0) }

Without(record, key) == [k \in DOMAIN record \ {key} |-> record[k]]

\* records no entry can be built from: a vendor key left out, a null punch date
BadRecords ==
    { Without(ClosedDay(20), "nWorkHours"),
      [ClosedDay(20) EXCEPT !.dPunchDate = None] }

RawEntries ==
    {ClosedDay(dd) : dd \in {18, 19, 20, 21, 25, 26}} \cup TodayRecords \cup BadRecords

\* the values predict_clock_out is called with (timedelta, seconds)
Remainings == {-3600, 8 * 3600, 8 * 3600 + 1, 9 * 3600}

Nows == {Arrow(Ordinal(2022, 6, 22) + k, 10 * 3600, "America/Detroit") : k \in 0..NowSpan}

---------------------------------------------------------------------------
(* Inputs of the direct calls and of the paging loop *)

\* the arguments parse_punch and parse_date are called with: texts in and
\* out of format, instants, null, a number
ParseInputs ==
    { PunchStr(6, 22, 2022, 9, 0, 0), PunchStr(6, 26, 2022, 23, 59, 59),
      PunchStr(2, 29, 2022, 9, 0, 0), PunchStr(13, 1, 2022, 9, 0, 0),
      PunchStr(6, 22, 2022, 24, 0, 0),
      DateStr(6, 22, 2022), DateStr(2, 30, 2022), AdjustStr(9, 0), EmptyStr,
      Arrow(Ordinal(2022, 6, 22), 9 * 3600, "America/Detroit"),
      Arrow(Ordinal(2022, 6, 22), 9 * 3600 + 1, "UTC"),
      None, PyInt(5) }

CategoryListKeys == {"GroupValueList", "AccessibleGroupList", "InvalidGroupList"}

\* records the constructor is called with directly: complete ones, ones with
\* one key left out, ones with a category list null, empty, filled, or
\* holding an option that lacks a key
ProbeBases == {ClosedDay(20), ClosedDay(21), RawRecord(22, 9, -1, 0, 300, TRUE, 30)}

ProbeRecords ==
    ProbeBases
    \cup {Without(record, key) : record \in ProbeBases, key \in DOMAIN ClosedDay(20)}
    \cup {[ClosedDay(21) EXCEPT ![key] = list] :
              key \in CategoryListKeys,
              list \in {None, List(<<>>), List(<<RawGroup("200", 2, "Office")>>),
                        List(<<Without(RawGroup("200", 2, "Office"), "cGroupValue")>>)}}

\* pages of at most two options
PagedLists ==
    {<<>>} \cup {<<g>> : g \in RawGroups} \cup {<<g, h>> : g \in RawGroups, h \in RawGroups}

\* what the vendor may answer a page request with: a page and a total, or an
\* error (which may carry a page all the same)
PageResponses ==
    {PageResponse(1, "", items, paged_list) : items \in 0..2, paged_list \in PagedLists}
    \cup {PageResponse(0, "Session expired", 1, <<RawGroup("200", 2, "Office")>>)}

\* the start and end texts DatePeriod is built from (dPayPeriodStart,
\* dWorkPeriodStartDate, tStartTime, ... of a raw record): days and times of
\* day in PUNCH_FORMAT, an instant, a text that is no date
PeriodEnds ==
    { PunchStr(6, 13, 2022, 0, 0, 0), PunchStr(6, 26, 2022, 0, 0, 0),
      PunchStr(6, 22, 2022, 12, 0, 0), PunchStr(6, 22, 2022, 12, 30, 0),
      Arrow(Ordinal(2022, 6, 20), 0, "America/Detroit"),
      PunchStr(2, 30, 2022, 0, 0, 0) }

\* hours of the five overtime levels, in hundredths of an hour, and the
\* records carrying them under the four labels (each label its own values)
OvertimeHours == {<<0, 0, 0, 0, 0>>, <<25, 150, 798, 1, 1200>>, <<800, 0, 50, 0, 0>>}

OvertimeRecord(h) ==
    [nOT1Hours |-> h[1], nOT2Hours |-> h[2], nOT3Hours |-> h[3],
     nOT4Hours |-> h[4], nOT5Hours |-> h[5],
     nCompOT1Hours |-> h[1] + 1, nCompOT2Hours |-> h[2] + 1,
     nCompOT3Hours |-> h[3] + 1, nCompOT4Hours |-> h[4] + 1,
     nCompOT5Hours |-> h[5] + 1,
     nRawCompOT1Hours |-> h[1] + 2, nRawCompOT2Hours |-> h[2] + 2,
     nRawCompOT3Hours |-> h[3] + 2, nRawCompOT4Hours |-> h[4] + 2,
     nRawCompOT5Hours |-> h[5] + 2,
     nRedirectOT1Hours |-> h[1] + 3, nRedirectOT2Hours |-> h[2] + 3,
     nRedirectOT3Hours |-> h[3] + 3, nRedirectOT4Hours |-> h[4] + 3,
     nRedirectOT5Hours |-> h[5] + 3]

OvertimeRecords == {OvertimeRecord(h) : h \in OvertimeHours}

OvertimeAttributes ==
    {"overtime_hours", "comp_overtime_hours", "raw_comp_overtime_hours",
     "redirect_overtime_hours"}

\* the schedule keys of a record
ScheduleRecords ==
    { [cSchedule |-> schedule, isSchedulePremium |-> premium,
       isSchedulePremiumUserOverride |-> 1 - premium,
       nScheduleHours |-> schedule_hours, SchGroupingString |-> "Shop"] :
          schedule \in {"", "DAY"}, premium \in {0, 1}, schedule_hours \in {0, 750, 800} }

\* the exception keys of a record: no exception, and each flag alone
NoException ==
    [cBreakException            |-> "Break too short",
     cMealException             |-> "Meal missed",
     lAutoDeductMealException   |-> FALSE,
     lAutoMealWaivedException   |-> FALSE,
     lEarlyInException          |-> FALSE,
     lEarlyOutException         |-> FALSE,
     lEarlyOutGraceException    |-> FALSE,
     lLateOutException          |-> FALSE,
     lLateOutToMealException    |-> FALSE,
     lMealBreakPremiumException |-> FALSE,
     lMissingPunchException     |-> FALSE,
     lOverPayException          |-> FALSE,
     lOvertimeException         |-> FALSE,
     lTardyException            |-> FALSE,
     lTardyGraceException       |-> FALSE,
     lUnauthorizedOT            |-> FALSE,
     lUnconfirmedInException    |-> FALSE,
     lUnconfirmedInPunch        |-> FALSE,
     lUnconfirmedOutException   |-> FALSE,
     lUnconfirmedOutPunch       |-> FALSE,
     lUnconfirmedPunchException |-> FALSE,
     lUnderPayException         |-> FALSE,
     lUnpaidBreakException      |-> FALSE,
     nAutoMealMinutes           |-> 30,
     nEarlyOutMinutes           |-> 5,
     nLongMeal                  |-> 150,
     nMealValMinutes            |-> 45,
     nQuantityBad               |-> 1,
     nQuantityGood              |-> 2,
     nTardyMinutes              |-> 7]

ExceptionFlags ==
    {"lAutoDeductMealException", "lAutoMealWaivedException",
     "lEarlyInException", "lEarlyOutException",
     "lEarlyOutGraceException", "lLateOutException",
     "lLateOutToMealException", "lMealBreakPremiumException",
     "lMissingPunchException", "lOverPayException",
     "lOvertimeException", "lTardyException", "lTardyGraceException",
     "lUnauthorizedOT", "lUnconfirmedInException",
     "lUnconfirmedInPunch", "lUnconfirmedOutException",
     "lUnconfirmedOutPunch", "lUnconfirmedPunchException",
     "lUnderPayException", "lUnpaidBreakException"}

ExceptionRecords ==
    {NoException} \cup {[NoException EXCEPT ![flag] = TRUE] : flag \in ExceptionFlags}

\* the days of the last paycheck: three weeks of days around the turn of the
\* year, at midnight or at 10:00
LastPays ==
    {Arrow(Ordinal(2022, 12, 19) + k, sec, "America/Detroit") :
         k \in 0..20, sec \in {0, 10 * 3600}}

\* what the vendor may answer the POST of write_entries with
WriteResponses ==
    { [ok |-> TRUE,  status_code |-> 200, reason |-> "OK", errorCode |-> 1],
      [ok |-> TRUE,  status_code |-> 200, reason |-> "OK", errorCode |-> 0],
      [ok |-> FALSE, status_code |-> 500, reason |-> "Internal Server Error",
       errorCode |-> 0] }

\* the pay period login reads from PPSTART and PPEND: Monday 2022-06-13 to
\* Sunday 2022-06-26
LoginPayPeriod == DatePeriod(parse_date(DateStr(6, 13, 2022)),
                             parse_date(DateStr(6, 26, 2022)))

\* the pay periods get_timesheet is asked for explicitly: the two weeks from
\* Monday 2022-06-06 to Sunday 2022-06-19
PayPeriods ==
    {DatePeriod(parse_date(DateStr(6, 6, 2022)), parse_date(DateStr(6, 19, 2022)))}

\* the records the vendor sends for the period asked for (StartDate and
\* EndDate of the request): those dated in it, and those without a date
RecordsOf(period) ==
    {r \in RawEntries :
         LET date == parse_punch(r.dPunchDate)
         IN  date.type = "arrow"
             => (date.ord >= period.start.ord /\ date.ord <= period.end.ord)}

\* the bodies /timesheetdetail answers with: a DataList (whose records
\* get_times then takes one by one), or a refusal without it
TimesheetResponses ==
    { [DataList |-> "records"],
      [Message  |-> "Authorization has been denied for this request."] }

---------------------------------------------------------------------------
(* The state machine.  The program is single-threaded: a call runs to its  *)
(* end before the next starts.  The timesheet and the category shelf share *)
(* no state, and the direct calls read no state; a behaviour follows one   *)
(* of the three.  Only get_times reads the clock: the other two are        *)
(* followed under the first clock reading.                                 *)

NoCall == [op |-> "", arg |-> None, val |-> None]

\* no get_times and no get_group_options has started
Fresh == pc = "new" /\ gpc = "idle" /\ now.ord = Ordinal(2022, 6, 22)

Init ==
    /\ now \in Nows
    /\ pc = "new"
    /\ raw_timesheet = <<>>
    /\ entries = NoEntries
    /\ hours = ZeroHours
    /\ ret = NoCall
    /\ gpc = "idle"
    /\ page = 1
    /\ group_options = NoOptions
    /\ progress = NewTask
    /\ group_data = None
    /\ logged = <<>>
    /\ pay_period = LoginPayPeriod
    /\ requested = None
    /\ posted = None

\* get_timesheet(pay_period) up to the loop of get_times: the response is
\* tested, then self.timesheet.parse_timesheet drops the old entries and
\* hours of the login timesheet.  The Timesheet built for pay_period_arg is a
\* local that is not used again.  The download is followed under the first
\* clock reading; get_times is entered under every one (get_times_begin).
get_timesheet(pay_period_arg, response) ==
    /\ pc \notin {"parsing", "writing"}
    /\ gpc = "idle"
    /\ now.ord = Ordinal(2022, 6, 22)
    /\ LET error == NotAuthorized(response)
       IN  IF IsRaise(error)
           THEN /\ ret' = [op  |-> "get_timesheet",
                           arg |-> [pay_period |-> pay_period_arg],
                           val |-> error]
                /\ UNCHANGED <<pc, raw_timesheet, entries, hours, requested>>
           ELSE /\ pc' = "parsing"
                /\ raw_timesheet' = <<>>
                /\ entries' = NoEntries
                /\ hours' = ZeroHours
                /\ ret' = NoCall
                /\ requested' = pay_period_arg
    /\ UNCHANGED <<now, pay_period, posted>>
    /\ UNCHANGED group_vars

\* get_times up to the loop: the old entries and hours are dropped
get_times_begin ==
    /\ pc \notin {"parsing", "writing"}
    /\ gpc = "idle"
    /\ pc' = "parsing"
    /\ raw_timesheet' = <<>>
    /\ entries' = NoEntries
    /\ hours' = ZeroHours
    /\ ret' = NoCall
    /\ UNCHANGED now
    /\ UNCHANGED group_vars
    /\ requested' = None
    /\ UNCHANGED <<pay_period, posted>>

\* one pass of the loop of get_times over the next record of the raw list
get_times_entry(raw_entry) ==
    /\ pc = "parsing"
    /\ Len(raw_timesheet) < MaxLen
    /\ raw_timesheet' = Append(raw_timesheet, raw_entry)
    /\ LET entry == TimesheetEntry(raw_entry)
       IN  IF IsRaise(entry)
           THEN /\ pc' = "raised"
                /\ ret' = [op |-> "get_times", arg |-> None, val |-> entry]
                /\ UNCHANGED <<entries, hours>>
           ELSE LET h == Accumulate(hours, entry, now)
                IN  /\ entries' = AppendEntry(entries, entry)
                    /\ IF IsRaise(h)
                       THEN /\ pc' = "raised"
                            /\ ret' = [op |-> "get_times", arg |-> None, val |-> h]
                            /\ UNCHANGED hours
                       ELSE /\ hours' = h
                            /\ UNCHANGED <<pc, ret>>
    /\ UNCHANGED now
    /\ UNCHANGED group_vars
    /\ UNCHANGED client_vars

\* the raw list is exhausted: get_times returns
get_times_return ==
    /\ pc = "parsing"
    /\ pc' = "done"
    /\ ret' = [op |-> "get_times", arg |-> None, val |-> None]
    /\ UNCHANGED <<now, raw_timesheet, entries, hours>>
    /\ UNCHANGED group_vars
    /\ UNCHANGED client_vars

predict_clock_out(remaining) ==
    /\ pc \in {"done", "raised"}
    /\ ret' = [op  |-> "predict_clock_out",
               arg |-> [remaining |-> remaining],
               val |-> predict_clock_out_value(entries, now, remaining)]
    /\ UNCHANGED <<now, pc, raw_timesheet, entries, hours>>
    /\ UNCHANGED group_vars
    /\ UNCHANGED client_vars

\* to_dict of the i-th entry of a date
to_dict_call(date, i) ==
    /\ pc \in {"done", "raised"}
    /\ ret' = [op  |-> "to_dict",
               arg |-> [self |-> entries[date][i]],
               val |-> to_dict(entries[date][i])]
    /\ UNCHANGED <<now, pc, raw_timesheet, entries, hours>>
    /\ UNCHANGED group_vars
    /\ UNCHANGED client_vars

\* write_dict of the i-th entry of a date
write_dict_call(date, i) ==
    /\ pc \in {"done", "raised"}
    /\ ret' = [op  |-> "write_dict",
               arg |-> [self |-> entries[date][i]],
               val |-> write_dict(entries[date][i])]
    /\ UNCHANGED <<now, pc, raw_timesheet, entries, hours>>
    /\ UNCHANGED group_vars
    /\ UNCHANGED client_vars

\* the lists write_entries is called with: the entries of one day of the
\* timesheet, or none
EntryLists == {<<>>} \cup {entries[date] : date \in DOMAIN entries}

\* write_entries(entries) up to the POST: every entry is serialized, then the
\* list is sent.  Entries are written once get_times has returned, under the
\* first clock reading.
write_entries(entry_list) ==
    /\ pc = "done" /\ gpc = "idle" /\ now.ord = Ordinal(2022, 6, 22)
    /\ ret.op = "get_times"
    /\ LET json == new_entries(entry_list)
       IN  IF IsRaise(json)
           THEN /\ ret' = [op  |-> "write_entries",
                           arg |-> [entries |-> entry_list],
                           val |-> json]
                /\ UNCHANGED <<pc, posted>>
           ELSE /\ pc' = "writing"
                /\ posted' = [entries |-> entry_list, json |-> json.items]
                /\ ret' = NoCall
    /\ UNCHANGED <<now, raw_timesheet, entries, hours, pay_period, requested>>
    /\ UNCHANGED group_vars

\* the response to the POST arrives: write_entries raises or returns
write_entries_response(response) ==
    /\ pc = "writing"
    /\ pc' = "done"
    /\ posted' = None
    /\ ret' = [op  |-> "write_entries",
               arg |-> [entries |-> posted.entries],
               val |-> WriteError(response)]
    /\ UNCHANGED <<now, raw_timesheet, entries, hours, pay_period, requested>>
    /\ UNCHANGED group_vars

\* TimesheetEntry(entry) called on a record directly
TimesheetEntry_call(entry) ==
    /\ Fresh
    /\ ret' = [op  |-> "TimesheetEntry",
               arg |-> [entry |-> entry],
               val |-> TimesheetEntry(entry)]
    /\ UNCHANGED <<now, pc, raw_timesheet, entries, hours>>
    /\ UNCHANGED group_vars
    /\ UNCHANGED client_vars

\* DatePeriod(start=..., end=...) called on the two texts of a raw record
DatePeriod_call(start, end) ==
    /\ Fresh
    /\ ret' = [op  |-> "DatePeriod",
               arg |-> [start |-> start, end |-> end],
               val |-> DatePeriod(start, end)]
    /\ UNCHANGED <<now, pc, raw_timesheet, entries, hours>>
    /\ UNCHANGED group_vars
    /\ UNCHANGED client_vars

\* the HoursGroup attribute of an entry built from a record, then to_dict
HoursGroup_to_dict_call(attribute, entry) ==
    /\ Fresh
    /\ LET self == IF attribute = "overtime_hours" THEN overtime_hours(entry)
                   ELSE IF attribute = "comp_overtime_hours"
                   THEN comp_overtime_hours(entry)
                   ELSE IF attribute = "raw_comp_overtime_hours"
                   THEN raw_comp_overtime_hours(entry)
                   ELSE redirect_overtime_hours(entry)
       IN  ret' = [op  |-> "HoursGroup.to_dict",
                   arg |-> [entry |-> entry, self |-> self],
                   val |-> HoursGroup_to_dict(self)]
    /\ UNCHANGED <<now, pc, raw_timesheet, entries, hours>>
    /\ UNCHANGED group_vars
    /\ UNCHANGED client_vars

Schedule_to_dict_call(entry) ==
    /\ Fresh
    /\ ret' = [op  |-> "Schedule.to_dict",
               arg |-> [entry |-> entry, self |-> Schedule(entry)],
               val |-> Schedule_to_dict(Schedule(entry))]
    /\ UNCHANGED <<now, pc, raw_timesheet, entries, hours>>
    /\ UNCHANGED group_vars
    /\ UNCHANGED client_vars

TimesheetEntryException_to_dict_call(entry) ==
    /\ Fresh
    /\ ret' = [op  |-> "TimesheetEntryException.to_dict",
               arg |-> [entry |-> entry, self |-> TimesheetEntryException(entry)],
               val |-> TimesheetEntryException_to_dict(TimesheetEntryException(entry))]
    /\ UNCHANGED <<now, pc, raw_timesheet, entries, hours>>
    /\ UNCHANGED group_vars
    /\ UNCHANGED client_vars

EntryCategory_to_dict_call(group) ==
    /\ Fresh
    /\ ret' = [op  |-> "EntryCategory.to_dict",
               arg |-> [entry |-> group, self |-> EntryCategory(group)],
               val |-> EntryCategory_to_dict(EntryCategory(group))]
    /\ UNCHANGED <<now, pc, raw_timesheet, entries, hours>>
    /\ UNCHANGED group_vars
    /\ UNCHANGED client_vars

get_current_pay_period_call(last_pay) ==
    /\ Fresh
    /\ ret' = [op  |-> "get_current_pay_period",
               arg |-> [last_pay |-> last_pay],
               val |-> get_current_pay_period(last_pay)]
    /\ UNCHANGED <<now, pc, raw_timesheet, entries, hours>>
    /\ UNCHANGED group_vars
    /\ UNCHANGED client_vars

parse_punch_call(punch_str) ==
    /\ Fresh
    /\ ret' = [op  |-> "parse_punch",
               arg |-> [punch_str |-> punch_str],
               val |-> parse_punch(punch_str)]
    /\ UNCHANGED <<now, pc, raw_timesheet, entries, hours>>
    /\ UNCHANGED group_vars
    /\ UNCHANGED client_vars

parse_date_call(date_str) ==
    /\ Fresh
    /\ ret' = [op  |-> "parse_date",
               arg |-> [date_str |-> date_str],
               val |-> parse_date(date_str)]
    /\ UNCHANGED <<now, pc, raw_timesheet, entries, hours>>
    /\ UNCHANGED group_vars
    /\ UNCHANGED client_vars

\* get_group_options up to the loop; the shelf is what earlier fetches left
get_group_options_begin ==
    /\ pc = "new" /\ now.ord = Ordinal(2022, 6, 22)
    /\ gpc \in {"idle", "returned", "raised"}
    /\ gpc' = "loop"
    /\ page' = 1
    /\ progress' = NewTask
    /\ group_data' = None
    /\ logged' = <<>>
    /\ ret' = NoCall
    /\ UNCHANGED <<now, pc, raw_timesheet, entries, hours, group_options>>
    /\ UNCHANGED client_vars

\* self._session.get(uri, params=parameters) is sent
get_group_options_request ==
    /\ gpc = "loop"
    /\ gpc' = "awaiting"
    /\ UNCHANGED <<now, pc, raw_timesheet, entries, hours, ret,
                   page, group_options, progress, group_data, logged>>
    /\ UNCHANGED client_vars

\* the response arrives and the pass of the loop runs to the loop test; the
\* vendor sends no page that takes the loop beyond page MaxPage
get_group_options_response(response) ==
    /\ gpc = "awaiting"
    /\ LET pass == LoopPass(group_options, page, progress, response)
       IN  /\ pass.page <= MaxPage
           /\ gpc' = pass.gpc
           /\ page' = pass.page
           /\ progress' = pass.progress
           /\ group_options' = pass.group_options
           /\ logged' = pass.logged
           /\ ret' = IF pass.gpc = "loop" THEN ret
                     ELSE [op |-> "get_group_options", arg |-> None, val |-> pass.val]
    /\ group_data' = response
    /\ UNCHANGED <<now, pc, raw_timesheet, entries, hours>>
    /\ UNCHANGED client_vars

Next ==
    \/ \E pay_period_arg \in PayPeriods \cup {None} :
           \E response \in TimesheetResponses : get_timesheet(pay_period_arg, response)
    \/ get_times_begin
    \/ \E raw_entry \in RecordsOf(IF requested = None THEN pay_period ELSE requested) :
           get_times_entry(raw_entry)
    \/ get_times_return
    \/ \E remaining \in Remainings : predict_clock_out(remaining)
    \/ \E date \in DOMAIN entries : \E i \in 1..Len(entries[date]) : to_dict_call(date, i)
    \/ \E date \in DOMAIN entries : \E i \in 1..Len(entries[date]) : write_dict_call(date, i)
    \/ \E entry_list \in EntryLists : write_entries(entry_list)
    \/ \E response \in WriteResponses : write_entries_response(response)
    \/ \E entry \in ProbeRecords : TimesheetEntry_call(entry)
    \/ \E start \in PeriodEnds : \E end \in PeriodEnds : DatePeriod_call(start, end)
    \/ \E attribute \in OvertimeAttributes :
           \E entry \in OvertimeRecords : HoursGroup_to_dict_call(attribute, entry)
    \/ \E entry \in ScheduleRecords : Schedule_to_dict_call(entry)
    \/ \E entry \in ExceptionRecords : TimesheetEntryException_to_dict_call(entry)
    \/ \E group \in RawGroups : EntryCategory_to_dict_call(group)
    \/ \E last_pay \in LastPays : get_current_pay_period_call(last_pay)
    \/ \E punch_str \in ParseInputs : parse_punch_call(punch_str)
    \/ \E date_str \in ParseInputs : parse_date_call(date_str)
    \/ get_group_options_begin
    \/ get_group_options_request
    \/ \E response \in PageResponses : get_group_options_response(response)

Spec == Init /\ [][Next]_vars

\* a request sent is answered, and the loop goes on to its next request
FairSpec ==
    /\ Spec
    /\ WF_vars(get_group_options_request)
    /\ WF_vars(\E response \in PageResponses : get_group_options_response(response))

---------------------------------------------------------------------------
(* Vocabulary of the properties *)

\* the entries get_times has built from a raw list, in input order
RECURSIVE ParsedOf(_)
ParsedOf(raw) ==
    IF raw = <<>> THEN <<>>
    ELSE LET entry == TimesheetEntry(Head(raw))
         IN  IF IsRaise(entry) THEN ParsedOf(Tail(raw))
             ELSE <<entry>> \o ParsedOf(Tail(raw))

\* the parsed entries with one punch date, in input order
RECURSIVE EntriesOn(_, _)
EntriesOn(parsed, date) ==
    IF parsed = <<>> THEN <<>>
    ELSE IF Head(parsed).punch_date = date
         THEN <<Head(parsed)>> \o EntriesOn(Tail(parsed), date)
         ELSE EntriesOn(Tail(parsed), date)

\* the sum of nDailyTotalHours, as a timedelta, over the raw records of a
\* list that are in the set kept
RECURSIVE SumDailyTotal(_, _)
SumDailyTotal(raw, kept) ==
    IF raw = <<>> THEN 0
    ELSE (IF Head(raw) \in kept THEN TimedeltaHours(Head(raw).nDailyTotalHours) ELSE 0)
         + SumDailyTotal(Tail(raw), kept)

RECURSIVE CountEntries(_, _)
CountEntries(ents, dates) ==
    IF dates = {} THEN 0
    ELSE LET date == CHOOSE x \in dates : TRUE
         IN  Len(ents[date]) + CountEntries(ents, dates \ {date})

EntryCount == CountEntries(entries, DOMAIN entries)

Today == FloorDay(now)

Returned(op) == ret.op = op /\ ~IsRaise(ret.val)

\* the Sunday on or before a day, and the Saturday before a day
SundayOnOrBefore(ord) == ord - ((Weekday(ord) + 1) % 7)
SaturdayBefore(ord) == (ord - 1) - ((Weekday(ord - 1) - 5) % 7)

PunchDay(record) == parse_punch(record.dPunchDate)

---------------------------------------------------------------------------
(* C1: for every valid raw record, TimesheetEntry(record).to_dict() returns *)
(* a record-shaped mapping that reproduces every field of the record with   *)
(* the same value and unit.  Stated for the entries of a list that parsed   *)
(* without error, with both punches present.                                *)

Reproduces(d, record) ==
    /\ d.type = "dict"
    /\ \A key \in DOMAIN record : key \in DOMAIN d /\ d[key] = record[key]

C1_ToDictReproducesRecord ==
    (pc = "done" /\ ret.op = "to_dict" /\ ret.arg.self.punch_out # None)
        => \A record \in RawEntries :
               TimesheetEntry(record) = ret.arg.self => Reproduces(ret.val, record)

(* C2: when the construction of an entry fails inside get_times, entries    *)
(* and hours are not left holding just the records parsed before the        *)
(* failing one.                                                             *)

HoldsOnlyParsedPrefix ==
    LET before == SubSeq(raw_timesheet, 1, Len(raw_timesheet) - 1)
    IN  /\ EntryCount = Len(before)
        /\ \A i \in 1..Len(before) :
               LET entry == TimesheetEntry(before[i])
               IN  /\ entry.punch_date \in DOMAIN entries
                   /\ \E j \in 1..Len(entries[entry.punch_date]) :
                          entries[entry.punch_date][j] = entry
        /\ hours.total = SumDailyTotal(before, RawEntries)

C2_AbortExposesNoPartialTimesheet ==
    (pc = "raised" /\ Len(raw_timesheet) > 1) => ~HoldsOnlyParsedPrefix

(* C3: for every now and every date d, is_this_week(d) holds exactly when d *)
(* lies from the Sunday on or before now up to, not including, the next     *)
(* Sunday; also when now is a Sunday.                                       *)

ProbeDates == {Arrow(ord, 0, "America/Detroit") : ord \in (now.ord - 9)..(now.ord + 9)}

C3_WeekIsSundayThroughSaturday ==
    \A d \in ProbeDates :
        is_this_week(now, d)
            <=> (SundayOnOrBefore(now.ord) <= d.ord /\ d.ord < SundayOnOrBefore(now.ord) + 7)

(* C4: in one get_times run, an entry dated the Saturday before now is      *)
(* added to hours.last_week and an entry dated the Sunday after that        *)
(* Saturday is added to hours.this_week.                                    *)

C4_SaturdayLastWeekSundayThisWeek ==
    LET saturday == Arrow(SaturdayBefore(now.ord), 0, "America/Detroit")
        sunday == Arrow(SaturdayBefore(now.ord) + 1, 0, "America/Detroit")
    IN  (/\ pc = "done"
         /\ raw_timesheet # <<>>
         /\ \A i \in 1..Len(raw_timesheet) :
                PunchDay(raw_timesheet[i]) \in {saturday, sunday})
            => /\ hours.last_week =
                      SumDailyTotal(raw_timesheet, {r \in RawEntries : PunchDay(r) = saturday})
               /\ hours.this_week =
                      SumDailyTotal(raw_timesheet, {r \in RawEntries : PunchDay(r) = sunday})

(* C5: after get_times succeeds, hours.this_week is the sum of              *)
(* nDailyTotalHours over the records whose punch date is in this week,      *)
(* hours.last_week the sum over the other records, hours.total the sum over *)
(* all; two records of 8.00 hours dated Monday 2022-06-20 and Tuesday       *)
(* 2022-06-21, parsed on Wednesday 2022-06-22, give 16:00 and 0:00.         *)

ThisWeekRecords ==
    {r \in RawEntries : PunchDay(r).type = "arrow" /\ is_this_week(now, PunchDay(r))}

BasicPayPeriod ==
    /\ now.ord = Ordinal(2022, 6, 22)
    /\ raw_timesheet = <<ClosedDay(20), ClosedDay(21)>>

C5_HoursAreSumsOfDailyTotal ==
    pc = "done" =>
        /\ hours.this_week = SumDailyTotal(raw_timesheet, ThisWeekRecords)
        /\ hours.last_week = SumDailyTotal(raw_timesheet, RawEntries \ ThisWeekRecords)
        /\ hours.total = SumDailyTotal(raw_timesheet, RawEntries)
        /\ BasicPayPeriod => (hours.this_week = 16 * 3600 /\ hours.last_week = 0)

C5_Witness ==
    /\ pc = "done"
    /\ BasicPayPeriod
    /\ hours.this_week = 16 * 3600

(* C6: after get_times succeeds on r1..rn, entries maps each punch date to  *)
(* the list of all entries of that date in input order; records sharing a   *)
(* date are appended, the entries number n in all, and nothing of an        *)
(* earlier parse is left.                                                   *)

C6_EntriesGroupedByDate ==
    pc = "done" =>
        /\ DOMAIN entries = {PunchDay(raw_timesheet[i]) : i \in 1..Len(raw_timesheet)}
        /\ \A date \in DOMAIN entries :
               entries[date] = EntriesOn(ParsedOf(raw_timesheet), date)
        /\ EntryCount = Len(raw_timesheet)

C6_Witness ==
    /\ pc = "done"
    /\ \E date \in DOMAIN entries :
           /\ Len(entries[date]) = 2
           /\ entries[date][1] # entries[date][2]

(* C7: when the last entry of today carries missing_punch,                  *)
(* predict_clock_out(remaining) returns (punch_in, punch_in + remaining),   *)
(* plus the entry's auto_meal_minutes exactly when remaining > 8 hours;     *)
(* 09:00 with 9:00 remaining and a 30 minute meal gives 18:30.              *)

DecidingEntry == entries[Today][Len(entries[Today])]

OpenShiftCall ==
    /\ Returned("predict_clock_out")
    /\ Today \in DOMAIN entries
    /\ DecidingEntry.exceptions.missing_punch

C8_NoEntryToday ==
    (ret.op = "predict_clock_out" /\ Today \notin DOMAIN entries)
        => ret.val = Tuple(None, None)

C8_Witness ==
    /\ ret.op = "predict_clock_out"
    /\ Today \notin DOMAIN entries
    /\ EntryCount = 2
    /\ \E date \in DOMAIN entries : entries[date][1].exceptions.missing_punch

(* C9: with several entries today, the value predict_clock_out returns is   *)
(* decided by the last entry of today's list: without missing_punch it is   *)
(* (that entry's punch_in, None) even when an earlier entry has             *)
(* missing_punch; with missing_punch the clock-in is the last entry's.      *)

C10_OpenPunchToDictCompletes ==
    (/\ pc = "done"
     /\ ret.op = "to_dict"
     /\ ret.arg.self.punch_in.punch # None
     /\ ret.arg.self.punch_out = None)
        => /\ ~IsRaise(ret.val)
           /\ ret.val.type = "dict"
           /\ ("dOut" \in DOMAIN ret.val => ret.val.dOut = None)

(* C11: for an entry with no punch_out, write_dict() either fails with an  *)
(* error or returns a mapping without the out-punch; it never returns a     *)
(* mapping that carries a dOut.                                             *)

OpenEntryWritten == ret.op = "write_dict" /\ ret.arg.self.punch_out = None

C11_OpenEntryWriteDictOmitsOrFails ==
    OpenEntryWritten =>
        \/ IsRaise(ret.val)
        \/ (ret.val.type = "dict" /\ "dOut" \notin DOMAIN ret.val)

C11_Witness ==
    /\ OpenEntryWritten
    /\ ret.arg.self.punch_in.punch.type = "arrow"
    /\ ret.val = Raise("AttributeError", "modified")

(* C12: for every entry with both punches, the keys of write_dict() are one *)
(* fixed set, whatever the entry holds, and none of them is a read-only     *)
(* vendor total.  An entry with both punches and its dates present always   *)
(* gets its mapping.                                                        *)

WriteDictKeys ==
    {"iTimeSeq", "iEmployeeSeq", "copyColor", "lUnauthorizedOT", "lCalcOverride",
     "iTimesheetSeq", "cIn_Mod", "cOut_Mod", "isUnEditable", "payCodeDisplayText",
     "dPunchDate", "dWorkDate", "nPayCode", "nCodeType", "nCalculate", "lRefTime",
     "lChanged", "dIn", "dOut", "GroupValueList", "focusGroup", "cNotes",
     "lHasError", "lAllowOverlapHours", "isPAPaycode", "lOverlappingTime",
     "lPendingCalc"}

VendorTotals ==
    {"nWorkHours", "nTotalHours", "nCompHours", "nDailyHours", "nDailyTotalHours",
     "nWeeklyHours", "nWeeklyTotalHours",
     "nOT1Hours", "nOT2Hours", "nOT3Hours", "nOT4Hours", "nOT5Hours",
     "nCompOT1Hours", "nRawCompOT1Hours", "nRedirectOT1Hours",
     "nOT1Pay", "nOT2Pay", "nOT3Pay", "nOT4Pay", "nOT5Pay",
     "nPayAmount", "nPremiumPay", "nRegPay", "nTotalPay"}

ClosedEntryWritten == ret.op = "write_dict" /\ ret.arg.self.punch_out # None

C12_WriteDictKeySetFixed ==
    ClosedEntryWritten =>
        /\ (/\ ret.arg.self.punch_date.type = "arrow"
            /\ ret.arg.self.work_date.type = "arrow"
            /\ ret.arg.self.punch_in.punch.type = "arrow") => ~IsRaise(ret.val)
        /\ ~IsRaise(ret.val) =>
               /\ DOMAIN ret.val \ {"type"} = WriteDictKeys
               /\ DOMAIN ret.val \cap VendorTotals = {}

C12_Witness ==
    /\ ClosedEntryWritten
    /\ ret.arg.self.categories = <<>>
    /\ ret.val.type = "dict"
    /\ ret.val.GroupValueList = None

(* C13: constructing a TimesheetEntry from a record that omits a key the   *)
(* constructor reads fails with a KeyError naming that key, and gives no    *)
(* entry.  Checked for each key of a closed day, of a day with categories   *)
(* and of an open shift; iTimeSeq has a default, and the out-punch keys are *)
(* not read when dOut is null.                                              *)

KeysRead(record) ==
    DOMAIN record \ ({"iTimeSeq"} \cup IF record.dOut = None
                                       THEN {"nAdjustOut", "lOutMod"} ELSE {})

C13_MissingKeyNamesTheKey ==
    \A base \in ProbeBases : \A key \in KeysRead(base) :
        (ret.op = "TimesheetEntry" /\ ret.arg.entry = Without(base, key))
            => ret.val = Raise("KeyError", key)

C13_Witness ==
    /\ ret.op = "TimesheetEntry"
    /\ ret.arg.entry = Without(ClosedDay(20), "nWorkHours")
    /\ ret.val = Raise("KeyError", "nWorkHours")

(* C14: for each of GroupValueList, AccessibleGroupList and                 *)
(* InvalidGroupList, a record in which the list is null or absent gives an  *)
(* entry whose list of that name is empty.                                  *)

ListAttribute(key, entry) ==
    IF key = "GroupValueList" THEN entry.categories
    ELSE IF key = "AccessibleGroupList" THEN entry.accessible_group_list
    ELSE entry.invalid_group_list

C14_NullOrAbsentListIsEmpty ==
    \A key \in CategoryListKeys :
        (/\ ret.op = "TimesheetEntry"
         /\ ret.arg.entry \in {[ClosedDay(21) EXCEPT ![key] = None],
                               Without(ClosedDay(21), key)})
            => /\ ret.val.type = "TimesheetEntry"
               /\ ListAttribute(key, ret.val) = <<>>

(* C15: parse_punch is idempotent: for every punch text x it accepts,       *)
(* parse_punch(parse_punch(x)) equals parse_punch(x), and an instant passed *)
(* in comes back unchanged.                                                 *)

C15_ParsePunchIdempotent ==
    ret.op = "parse_punch" =>
        /\ ret.arg.punch_str.type = "arrow" => ret.val = ret.arg.punch_str
        /\ (ret.arg.punch_str.type = "str" /\ ~IsRaise(ret.val))
               => (ret.val.type = "arrow" /\ parse_punch(ret.val) = ret.val)

C15_Witness ==
    /\ ret.op = "parse_punch"
    /\ ret.arg.punch_str = PunchStr(6, 22, 2022, 9, 0, 0)
    /\ ret.val = Arrow(Ordinal(2022, 6, 22), 9 * 3600, "America/Detroit")
    /\ parse_punch(ret.val) = ret.val

(* C16: parse_punch and parse_date fail with an error on every input that   *)
(* is neither a well-formed text of their format nor, for parse_punch, an   *)
(* instant; null or a number is not handed back.                            *)

MalformedPunchInputs ==
    { PunchStr(2, 29, 2022, 9, 0, 0), PunchStr(13, 1, 2022, 9, 0, 0),
      PunchStr(6, 22, 2022, 24, 0, 0), DateStr(6, 22, 2022), DateStr(2, 30, 2022),
      AdjustStr(9, 0), EmptyStr, None, PyInt(5) }

MalformedDateInputs ==
    { PunchStr(2, 29, 2022, 9, 0, 0), PunchStr(13, 1, 2022, 9, 0, 0),
      DateStr(2, 30, 2022), AdjustStr(9, 0), EmptyStr, None, PyInt(5),
      Arrow(Ordinal(2022, 6, 22), 9 * 3600, "America/Detroit") }

C16_MalformedInputFails ==
    /\ (ret.op = "parse_punch" /\ ret.arg.punch_str \in MalformedPunchInputs)
           => IsRaise(ret.val)
    /\ (ret.op = "parse_date" /\ ret.arg.date_str \in MalformedDateInputs)
           => IsRaise(ret.val)

(* C17: when pages are merged into the options of a group, a page whose    *)
(* option repeats a group_seq already stored, with another description,     *)
(* replaces the option stored for that group_seq: afterwards the page's     *)
(* option is the one stored for it, the number of stored options has not    *)
(* grown, and exactly one overwrite warning was logged.  Stated for a page  *)
(* of one option.                                                           *)

\* the options a shelf holds with a sequence number
StoredWithSeq(shelf, seq) ==
    {shelf[value] : value \in {v \in DOMAIN shelf : shelf[v].group_seq = seq}}

C17_RepeatedSeqOverwrites ==
    [][(/\ gpc = "awaiting"
        /\ gpc' \in {"loop", "returned"}
        /\ ShelfLen(group_options) # group_data'.Data.ItemTotal
        /\ Len(group_data'.Data.PagedList) = 1
        /\ \E old \in StoredWithSeq(group_options,
                                    group_data'.Data.PagedList[1].iGroupValueSeq) :
               old.description # group_data'.Data.PagedList[1].cDescription)
       => LET new == EntryCategory(group_data'.Data.PagedList[1])
          IN  /\ StoredWithSeq(group_options', new.group_seq) = {new}
              /\ ShelfLen(group_options') = ShelfLen(group_options)
              /\ Len(logged') = 1]_vars

(* C18: the paging loop of get_group_options ends: whatever the vendor      *)
(* answers (a total that keeps changing, repeated keys, empty pages), a     *)
(* request sent is followed, after finitely many requests, by the return or *)
(* an error of the call.                                                    *)

C18_PagingLoopEnds == (gpc = "awaiting") ~> (gpc \in {"returned", "raised"})

(* C19: whenever get_group_options returns, the number of options stored    *)
(* for the group equals the ItemTotal of the last page response received.   *)

C19_ReturnsWithAllOptions ==
    gpc = "returned" => ShelfLen(group_options) = group_data.Data.ItemTotal

(* C20: a page response whose _errorCode is not 1 fails the fetch with a    *)
(* ValueError carrying the vendor's code and description; nothing of that   *)
(* response is merged into the options and the call asks for no further     *)
(* page.                                                                    *)

C20_ErrorPageFailsTheFetch ==
    [][(gpc = "awaiting" /\ group_data'.errorCode # 1)
       => /\ gpc' = "raised"
          /\ ret' = [op  |-> "get_group_options",
                     arg |-> None,
                     val |-> Raise("ValueError",
                                   [code        |-> group_data'.errorCode,
                                    description |-> group_data'.errorDescription])]
          /\ group_options' = group_options
          /\ page' = page]_vars

C20_Witness ==
    /\ gpc = "raised"
    /\ group_data.errorCode = 0
    /\ page = 2
    /\ DOMAIN group_options = {"100"}
    /\ ret.val.arg.code = 0

---------------------------------------------------------------------------
(* C21: when the timesheet response lacks the DataList key, get_timesheet  *)
(* fails with the not-authorized error, which is no KeyError (the error of *)
(* a record that lacks a field), and the entries and hours of the          *)
(* timesheet stay as they were: get_times is not entered.                  *)

\* a get_timesheet call has just got the response
GetTimesheetAnswered(response) ==
    \E pay_period_arg \in PayPeriods \cup {None} : get_timesheet(pay_period_arg, response)

C21_NoDataListIsNotAuthorized ==
    [][\A response \in TimesheetResponses :
          (GetTimesheetAnswered(response) /\ ~Has(response, "DataList"))
          => /\ ret'.op = "get_timesheet"
             /\ IsRaise(ret'.val)
             /\ ret'.val.exc = "AttributeError"
             /\ ret'.val # KeyError("DataList")
             /\ ret'.val.exc # KeyError("nWorkHours").exc
             /\ entries' = entries /\ hours' = hours
             /\ pc' = pc /\ raw_timesheet' = raw_timesheet]_vars

\* the refusal arrives at a timesheet that holds parsed entries and hours
C21_Witness ==
    /\ ret.op = "get_timesheet" /\ IsRaise(ret.val)
    /\ pc = "done"
    /\ DOMAIN entries # {}
    /\ hours.total > 0

---------------------------------------------------------------------------
(* C26: when get_timesheet(pay_period=P) has succeeded for a period P that *)
(* is not the login pay period, the timesheet that holds the parsed        *)
(* entries and hours has P as its pay period.                              *)

\* get_timesheet was called for an explicit period and its records are parsed
ExplicitPeriodParsed == pc = "done" /\ requested # None /\ requested # LoginPayPeriod

C26_EntriesBelongToRequestedPeriod ==
    ExplicitPeriodParsed => pay_period = requested

---------------------------------------------------------------------------
(* C22: every TimesheetEntry that was constructed has a punch_in whose     *)
(* punch instant is present (not None), whether punch_out is there or not. *)

C22_PunchInAlwaysPresent ==
    /\ \A date \in DOMAIN entries :
          \A i \in 1..Len(entries[date]) : entries[date][i].punch_in.punch # None
    /\ (ret.op = "TimesheetEntry" /\ ~IsRaise(ret.val))
          => ret.val.punch_in.punch # None

---------------------------------------------------------------------------
(* C23: every DatePeriod that exists has start <= end; none with start     *)
(* later than end can be built from raw data.                              *)

C23_DatePeriodStartNotAfterEnd ==
    /\ ~Before(pay_period.end, pay_period.start)
    /\ (ret.op = "DatePeriod" /\ ~IsRaise(ret.val))
          => ~Before(ret.val.end, ret.val.start)

---------------------------------------------------------------------------
(* C24: a value object built from its keys of a raw record gives those     *)
(* keys back from to_dict, each with the value the record has: HoursGroup  *)
(* under each of its four labels (the keys n<label>OT1Hours ..             *)
(* n<label>OT5Hours and no others), Schedule, TimesheetEntryException and  *)
(* EntryCategory.                                                          *)

\* the keys of the record a value object is built from
SliceKeys(op, self) ==
    IF op = "HoursGroup.to_dict"
    THEN LET label == self.ot_type
         IN  IF label = ""
             THEN {"nOT1Hours", "nOT2Hours", "nOT3Hours", "nOT4Hours", "nOT5Hours"}
             ELSE IF label = "Comp"
             THEN {"nCompOT1Hours", "nCompOT2Hours", "nCompOT3Hours",
                   "nCompOT4Hours", "nCompOT5Hours"}
             ELSE IF label = "RawComp"
             THEN {"nRawCompOT1Hours", "nRawCompOT2Hours", "nRawCompOT3Hours",
                   "nRawCompOT4Hours", "nRawCompOT5Hours"}
             ELSE {"nRedirectOT1Hours", "nRedirectOT2Hours", "nRedirectOT3Hours",
                   "nRedirectOT4Hours", "nRedirectOT5Hours"}
    ELSE IF op = "Schedule.to_dict"
    THEN {"cSchedule", "isSchedulePremium", "isSchedulePremiumUserOverride",
          "nScheduleHours", "SchGroupingString"}
    ELSE IF op = "TimesheetEntryException.to_dict"
    THEN DOMAIN NoException
    ELSE {EntryCategoryKeys[i] : i \in 1..Len(EntryCategoryKeys)}

RoundTripOps ==
    {"HoursGroup.to_dict", "Schedule.to_dict", "TimesheetEntryException.to_dict",
     "EntryCategory.to_dict"}

C24_ToDictGivesTheSliceBack ==
    ret.op \in RoundTripOps
    => LET keys == SliceKeys(ret.op, ret.arg.self)
       IN  /\ DOMAIN ret.val \ {"type"} = keys
           /\ \A key \in keys : ret.val[key] = ret.arg.entry[key]

\* a labelled hours group with different hours at the five levels came back
C24_Witness ==
    /\ ret.op = "HoursGroup.to_dict"
    /\ ret.arg.self.ot_type = "RawComp"
    /\ ret.val["nRawCompOT3Hours"] = 800
    /\ ret.val["nRawCompOT5Hours"] = 1202

---------------------------------------------------------------------------
(* C25: for every last_pay, get_current_pay_period returns (start, end)    *)
(* with start a Monday, end a Sunday, end exactly 13 days after start, and *)
(* end at least one week after last_pay.                                   *)

C25_PayPeriodIsMondayToSundayFortnight ==
    ret.op = "get_current_pay_period"
    => LET start_date == ret.val.items[1]
           end_date   == ret.val.items[2]
           last_pay   == ret.arg.last_pay
       IN  /\ Weekday(start_date.ord) = 0
           /\ Weekday(end_date.ord) = 6
           /\ end_date = AddSeconds(start_date, 13 * 86400)
           /\ ~Before(end_date, AddSeconds(last_pay, 7 * 86400))

\* a paycheck on a Sunday: the period ends exactly one week later, in the
\* next year
C25_Witness ==
    /\ ret.op = "get_current_pay_period"
    /\ Weekday(ret.arg.last_pay.ord) = 6
    /\ ret.val.items[2] = AddSeconds(ret.arg.last_pay, 7 * 86400)
    /\ ret.val.items[2].ord = Ordinal(2023, 1, 1)

---------------------------------------------------------------------------
(* C27: in every state, also after a get_times call that aborted on a bad  *)
(* record, hours.total = hours.this_week + hours.last_week: each record    *)
(* whose pass of the loop completed is counted in exactly one of the two   *)
(* buckets, in last_week when it is dated before last Sunday or on or      *)
(* after the coming Sunday.                                                *)

\* the records whose pass of the loop completed: all but the one the call
\* aborted on
Counted ==
    IF pc = "raised" THEN SubSeq(raw_timesheet, 1, Len(raw_timesheet) - 1)
    ELSE raw_timesheet

\* the coming Sunday: the first Sunday on or after now
ComingSunday == now.ord + ((6 - Weekday(now.ord)) % 7)

\* records dated from last Sunday up to the day before the coming Sunday
WeekOfNow ==
    {r \in RawEntries : /\ PunchDay(r).type = "arrow"
                        /\ PunchDay(r).ord >= ComingSunday - 7
                        /\ PunchDay(r).ord < ComingSunday}

---------------------------------------------------------------------------
(* C28: when the shelf already holds exactly ItemTotal options as the      *)
(* first page response of a get_group_options call arrives, the call ends  *)
(* on that response, having sent one request, and the shelf is as it was:  *)
(* the page received is not merged.                                        *)

\* the response to the first request of a call arrives: none was received yet
FirstResponseArrives == gpc = "awaiting" /\ group_data = None /\ group_data' # None

C28_FullShelfIsNotRefreshed ==
    [][(FirstResponseArrives
        /\ ShelfLen(group_options) = group_data'.Data.ItemTotal)
       => /\ gpc' \in {"returned", "raised"}
          /\ group_data'.errorCode = 1 => gpc' = "returned"
          /\ group_options' = group_options
          /\ page' = 1
          /\ logged' = <<>>]_vars

\* a call returned on its first response with option 100 still under the
\* description stored earlier, the page received carrying another one
C28_Witness ==
    /\ gpc = "returned"
    /\ progress.total = None
    /\ group_data.Data.ItemTotal = 1
    /\ group_data.Data.PagedList = <<RawGroup("100", 1, "Workshop")>>
    /\ DOMAIN group_options = {"100"}
    /\ group_options["100"].description = "Shop"

---------------------------------------------------------------------------
(* C29: write_entries serializes every entry of its list before it sends   *)
(* anything: when write_dict fails for one of them (an entry without       *)
(* punch_out, say), write_entries fails, no POST is sent and no entry of   *)
(* the list is written.                                                    *)

SomeWriteDictFails(entry_list) ==
    \E i \in 1..Len(entry_list) : IsRaise(write_dict(entry_list[i]))

C29_NothingPostedWhenAnEntryFails ==
    /\ posted # None
          => /\ ~SomeWriteDictFails(posted.entries)
             /\ Len(posted.json) = Len(posted.entries)
    /\ (ret.op = "write_entries" /\ SomeWriteDictFails(ret.arg.entries))
          => /\ IsRaise(ret.val)
             /\ ret.val.exc = "AttributeError"
             /\ posted = None
             /\ pc = "done"

\* a list whose first entry can be written and whose second has no
\* punch_out: the call failed with nothing in flight
C29_Witness ==
    /\ ret.op = "write_entries"
    /\ IsRaise(ret.val)
    /\ Len(ret.arg.entries) = 2
    /\ ~IsRaise(write_dict(ret.arg.entries[1]))
    /\ ret.arg.entries[2].punch_out = None
    /\ posted = None
    /\ pc = "done"

---------------------------------------------------------------------------
(* C30: whenever predict_clock_out returns a clock-out, it is not earlier  *)
(* than the clock-in returned with it, for every remaining, a negative one *)
(* (the weekly hours already exceeded) included.                           *)

C30_ClockOutNotBeforeClockIn ==
    (/\ ret.op = "predict_clock_out"
     /\ ~IsRaise(ret.val)
     /\ ret.val.items[2] # None)
    => ~Before(ret.val.items[2], ret.val.items[1])

=============================================================================
